---- MODULE Spec2Model ----
(***************************************************************************)
(* A model of the PromptLang front end: the Lexer and the recursive-       *)
(* descent Parser (src/src/parser/parser.ts), the TypeChecker and the      *)
(* Schema validator/decoder (src/src/types/checker.ts).                    *)
(*                                                                         *)
(* Source text is a sequence of one-character strings.  The lexer is a     *)
(* set of pure operators over (input, cursor); the parser's methods are    *)
(* pure operators over (its Lexer, parser state); a thrown exception is a  *)
(* result record with ok = FALSE.                                          *)
(***************************************************************************)
EXTENDS Integers, Sequences, FiniteSets, TLC

VARIABLES
    input,      \* Lexer.input: the source text
    origin,     \* how the source text was put together (bookkeeping of the inputs)
    lexer,      \* Lexer.position / line / column
    current,    \* Parser.current: the buffered token
    pc,         \* where the driver of the component stands
    result,     \* what the last operation returned or threw
    errors,     \* TypeChecker.errors: the error log
    history     \* observations of earlier calls, for the temporal claims

vars == <<input, origin, lexer, current, pc, result, errors, history>>

(***************************************************************************)
(* Bounds of the model.                                                    *)
(***************************************************************************)
MaxToks == 3        \* lexemes in a free-form source text
MaxStages == 3      \* stages in a pipeline source text
MaxBindings == 2    \* bindings in a let source text
MaxCalls == 3       \* extra nextToken() calls made after the end of input
MaxParts == 2       \* pieces (text, interpolation) of a template source text
MaxChecks == 2      \* check() calls made on one TypeChecker
MaxKeys == 2        \* properties of an object handed to a Schema
MaxPieces == 3      \* pieces of a free-form text handed to Schema.parse
MaxParams == 2      \* parameters of a lambda source text
MaxFields == 1      \* fields of a record type
MaxMembers == 2     \* members of a union type written out by hand
MaxOps == 2         \* constructor calls made one on the result of the other
MaxDeclared == 2    \* fields declared by a schema handed to toOpenAISchema
MaxChars == 5       \* characters of an input scanned loop iteration by iteration
MaxThreshold == 2   \* threshold of a CircuitBreaker
MaxTimeout == 2     \* timeout of a CircuitBreaker, in ticks of the clock
MaxClock == 5       \* last value of Date.now()
MaxExecs == 4       \* calls of execute on one CircuitBreaker
MaxInFlight == 2    \* calls of execute awaiting their function at one time
MaxAttempts == 3    \* maxAttempts of a retry
MaxDelay == 3       \* initialDelay and maxDelay of a retry, in ms
MaxFactor == 2      \* backoffFactor of a retry
MaxTtl == 2         \* ttl of a cached prompt, in ticks of the clock

(***************************************************************************)
(* Generic helpers.                                                        *)
(***************************************************************************)
Min(a, b) == IF a < b THEN a ELSE b

\* s.slice(from, to) on a sequence of characters, 0-based, end exclusive
Slice(s, from, to) == SubSeq(s, from + 1, Min(to, Len(s)))

\* s.includes(sub)
Includes(s, sub) ==
    \E i \in 0..Len(s) : Slice(s, i, i + Len(sub)) = sub /\ i + Len(sub) <= Len(s)

\* the characters of String(undefined)
UndefinedText == <<"u", "n", "d", "e", "f", "i", "n", "e", "d">>

\* what reading past the end of a string yields
Undefined == "undefined"

\* the text a character contributes when it is appended to a string
CharText(c) == IF c = Undefined THEN UndefinedText ELSE <<c>>

(***************************************************************************)
(* TokenType (src/src/parser/parser.ts 755-795).  EQUALS and QUESTION are   *)
(* used by the parser but are no members of the enum: they evaluate to     *)
(* undefined, which is no token's type.                                    *)
(***************************************************************************)
TokenType ==
    [name \in {"STRING", "NUMBER", "BOOLEAN", "DEFPROMPT", "LET", "IN", "CASE",
               "WHEN", "END", "IDENTIFIER", "PIPE", "ARROW", "FAT_ARROW",
               "LPAREN", "RPAREN", "LBRACE", "RBRACE", "LBRACKET", "RBRACKET",
               "COMMA", "COLON", "DOUBLE_COLON", "DOT", "AT", "EOF",
               "EQUALS", "QUESTION"} |->
        CASE name = "PIPE" -> "|>"
          [] name = "ARROW" -> "->"
          [] name = "FAT_ARROW" -> "=>"
          [] name = "LPAREN" -> "("
          [] name = "RPAREN" -> ")"
          [] name = "LBRACE" -> "{"
          [] name = "RBRACE" -> "}"
          [] name = "LBRACKET" -> "["
          [] name = "RBRACKET" -> "]"
          [] name = "COMMA" -> ","
          [] name = "COLON" -> ":"
          [] name = "DOUBLE_COLON" -> "::"
          [] name = "DOT" -> "."
          [] name = "AT" -> "@"
          [] name \in {"EQUALS", "QUESTION"} -> Undefined
          [] OTHER -> name]

(***************************************************************************)
(* Lexer (src/src/parser/parser.ts 803-1001).  The cursor lx is            *)
(* [position, line, column]; position is 0-based as in the source.         *)
(***************************************************************************)
LexerInit == [position |-> 0, line |-> 1, column |-> 1]

Digits == {"0", "1", "2", "3", "4", "5", "6", "7", "8", "9"}

Letters ==
    {"a", "b", "c", "d", "e", "f", "g", "h", "i", "j", "k", "l", "m",
     "n", "o", "p", "q", "r", "s", "t", "u", "v", "w", "x", "y", "z",
     "A", "B", "C", "D", "E", "F", "G", "H", "I", "J", "K", "L", "M",
     "N", "O", "P", "Q", "R", "S", "T", "U", "V", "W", "X", "Y", "Z"}

isDigit(char) == char \in Digits

isAlpha(char) == char \in Letters

isAlphaNum(char) == isAlpha(char) \/ isDigit(char)

Lexer_peek(inp, lx) == IF lx.position < Len(inp) THEN inp[lx.position + 1] ELSE ""

Lexer_peekNext(inp, lx) ==
    IF lx.position + 1 < Len(inp) THEN inp[lx.position + 2] ELSE ""

\* the character advance() returns
Lexer_advanceChar(inp, lx) ==
    IF lx.position < Len(inp) THEN inp[lx.position + 1] ELSE Undefined

\* the cursor advance() leaves
Lexer_advance(lx) ==
    [lx EXCEPT !.position = @ + 1, !.column = @ + 1]

\* whether match(str) finds str at the cursor
Lexer_matches(inp, lx, str) ==
    /\ lx.position + Len(str) <= Len(inp)
    /\ Slice(inp, lx.position, lx.position + Len(str)) = str

\* the cursor match(str) leaves when it found str
Lexer_match(lx, str) ==
    [lx EXCEPT !.position = @ + Len(str), !.column = @ + Len(str)]

makeToken(lx, type, value) ==
    [type |-> type, value |-> value,
     location |-> [line |-> lx.line, column |-> lx.column - Len(value)]]

escape(char) ==
    CASE char = "n" -> "\n"
      [] char = "t" -> "\t"
      [] char = "r" -> "\r"
      [] OTHER -> char

keywordType(word) ==
    CASE word = <<"d", "e", "f", "p", "r", "o", "m", "p", "t">> -> TokenType["DEFPROMPT"]
      [] word = <<"l", "e", "t">> -> TokenType["LET"]
      [] word = <<"i", "n">> -> TokenType["IN"]
      [] word = <<"c", "a", "s", "e">> -> TokenType["CASE"]
      [] word = <<"w", "h", "e", "n">> -> TokenType["WHEN"]
      [] word = <<"e", "n", "d">> -> TokenType["END"]
      [] word = <<"t", "r", "u", "e">> -> TokenType["BOOLEAN"]
      [] word = <<"f", "a", "l", "s", "e">> -> TokenType["BOOLEAN"]
      [] OTHER -> TokenType["IDENTIFIER"]

RECURSIVE skipComment(_, _)
skipComment(inp, lx) ==
    IF Lexer_peek(inp, lx) # "\n" /\ lx.position < Len(inp)
    THEN skipComment(inp, Lexer_advance(lx))
    ELSE lx

RECURSIVE skipWhitespace(_, _)
skipWhitespace(inp, lx) ==
    IF lx.position >= Len(inp) THEN lx
    ELSE LET char == Lexer_peek(inp, lx) IN
         IF char \in {" ", "\t", "\r"}
         THEN skipWhitespace(inp, Lexer_advance(lx))
         ELSE IF char = "\n"
         THEN skipWhitespace(inp,
                  Lexer_advance([lx EXCEPT !.line = @ + 1, !.column = 0]))
         ELSE IF char = "#"
         THEN skipWhitespace(inp, skipComment(inp, lx))
         ELSE lx

\* A lexer result: a token and the cursor after it, or a throw.
LexOk(tok, lx) == [ok |-> TRUE, tok |-> tok, lx |-> lx]

LexThrow(kind, char, lx) ==
    [ok |-> FALSE,
     err |-> [kind |-> kind, what |-> char, line |-> lx.line, column |-> lx.column],
     lx |-> lx]

\* the inner loop of scanTemplate: while (!this.match('}}')) value += this.advance()
\* It ends only at a '}}'; with none left it appends undefined for ever.
RECURSIVE scanInterpolation(_, _, _)
scanInterpolation(inp, lx, value) ==
    IF Lexer_matches(inp, lx, <<"}", "}">>)
    THEN [closed |-> TRUE, lx |-> Lexer_match(lx, <<"}", "}">>), value |-> value]
    ELSE IF lx.position >= Len(inp)
    THEN [closed |-> FALSE, lx |-> lx, value |-> value]
    ELSE scanInterpolation(inp, Lexer_advance(lx),
                           value \o CharText(Lexer_advanceChar(inp, lx)))

RECURSIVE scanTemplateLoop(_, _, _)
scanTemplateLoop(inp, lx, value) ==
    IF lx.position >= Len(inp)
    THEN LexOk(makeToken(lx, TokenType["STRING"], value), lx)
    ELSE IF Lexer_matches(inp, lx, <<"\"", "\"", "\"">>)
    THEN LET lx2 == Lexer_match(lx, <<"\"", "\"", "\"">>)
         IN  LexOk(makeToken(lx2, TokenType["STRING"], value), lx2)
    ELSE IF Lexer_matches(inp, lx, <<"{", "{">>)
    THEN LET r == scanInterpolation(inp, Lexer_match(lx, <<"{", "{">>),
                                    value \o <<"{", "{">>)
         IN  IF r.closed
             THEN scanTemplateLoop(inp, r.lx, r.value \o <<"}", "}">>)
             ELSE LexThrow("unbounded", "{{", r.lx)
    ELSE scanTemplateLoop(inp, Lexer_advance(lx),
                          value \o CharText(Lexer_advanceChar(inp, lx)))

scanTemplate(inp, lx) == scanTemplateLoop(inp, lx, <<>>)

RECURSIVE scanStringLoop(_, _, _)
scanStringLoop(inp, lx, value) ==
    IF Lexer_peek(inp, lx) # "\"" /\ lx.position < Len(inp)
    THEN IF Lexer_peek(inp, lx) = "\\"
         THEN LET lx1 == Lexer_advance(lx)
              IN  scanStringLoop(inp, Lexer_advance(lx1),
                      value \o CharText(escape(Lexer_advanceChar(inp, lx1))))
         ELSE scanStringLoop(inp, Lexer_advance(lx),
                      value \o CharText(Lexer_advanceChar(inp, lx)))
    ELSE [lx |-> lx, value |-> value]

scanString(inp, lx) ==
    LET r == scanStringLoop(inp, lx, <<>>)
        lx2 == Lexer_advance(r.lx)      \* closing quote
    IN  LexOk(makeToken(lx2, TokenType["STRING"], r.value), lx2)

RECURSIVE scanDigits(_, _)
scanDigits(inp, lx) ==
    IF isDigit(Lexer_peek(inp, lx)) THEN scanDigits(inp, Lexer_advance(lx)) ELSE lx

scanNumber(inp, lx) ==
    LET start == lx.position - 1
        lx1 == scanDigits(inp, lx)
        lx2 == IF Lexer_peek(inp, lx1) = "." /\ isDigit(Lexer_peekNext(inp, lx1))
               THEN scanDigits(inp, Lexer_advance(lx1))
               ELSE lx1
    IN  LexOk(makeToken(lx2, TokenType["NUMBER"], Slice(inp, start, lx2.position)), lx2)

RECURSIVE scanIdentChars(_, _)
scanIdentChars(inp, lx) ==
    IF isAlphaNum(Lexer_peek(inp, lx)) \/ Lexer_peek(inp, lx) = "_"
    THEN scanIdentChars(inp, Lexer_advance(lx))
    ELSE lx

scanIdentifier(inp, lx) ==
    LET start == lx.position - 1
        lx1 == scanIdentChars(inp, lx)
        value == Slice(inp, start, lx1.position)
    IN  LexOk(makeToken(lx1, keywordType(value), value), lx1)

\* the single-character tokens of nextToken's switch
SingleCharTokens == {"(", ")", "{", "}", "[", "]", ",", ":", ".", "@"}

\* nextToken after the end-of-input test: operators, then the switch
scanToken(inp, lx) ==
    IF Lexer_matches(inp, lx, <<"|", ">">>)
    THEN LET l == Lexer_match(lx, <<"|", ">">>)
         IN  LexOk(makeToken(l, TokenType["PIPE"], <<"|", ">">>), l)
    ELSE IF Lexer_matches(inp, lx, <<"-", ">">>)
    THEN LET l == Lexer_match(lx, <<"-", ">">>)
         IN  LexOk(makeToken(l, TokenType["ARROW"], <<"-", ">">>), l)
    ELSE IF Lexer_matches(inp, lx, <<"=", ">">>)
    THEN LET l == Lexer_match(lx, <<"=", ">">>)
         IN  LexOk(makeToken(l, TokenType["FAT_ARROW"], <<"=", ">">>), l)
    ELSE IF Lexer_matches(inp, lx, <<":", ":">>)
    THEN LET l == Lexer_match(lx, <<":", ":">>)
         IN  LexOk(makeToken(l, TokenType["DOUBLE_COLON"], <<":", ":">>), l)
    ELSE IF Lexer_matches(inp, lx, <<"\"", "\"", "\"">>)
    THEN scanTemplate(inp, Lexer_match(lx, <<"\"", "\"", "\"">>))
    ELSE LET char == Lexer_advanceChar(inp, lx)
             l == Lexer_advance(lx)
         IN  IF char \in SingleCharTokens THEN LexOk(makeToken(l, char, <<char>>), l)
             ELSE IF char = "\"" THEN scanString(inp, l)
             ELSE IF isDigit(char) THEN scanNumber(inp, l)
             ELSE IF isAlpha(char) THEN scanIdentifier(inp, l)
             ELSE LexThrow("Unexpected character", char, l)

\* nextToken consuming a character when it returns EOF
nextToken_eofAdvances(inp, lx0) ==
    LET lx == skipWhitespace(inp, lx0)
    IN  IF lx.position >= Len(inp)
        THEN LexOk(makeToken(Lexer_advance(lx), TokenType["EOF"], <<>>),
                   Lexer_advance(lx))
        ELSE scanToken(inp, lx)

nextToken(inp, lx0) ==
    LET lx == skipWhitespace(inp, lx0)
    IN  IF lx.position >= Len(inp)
        THEN LexOk(makeToken(lx, TokenType["EOF"], <<>>), lx)
        ELSE scanToken(inp, lx)

(***************************************************************************)
(* JavaScript values: [t |-> typeof-like tag, v |-> payload].              *)
(* Numbers are [m, e] standing for m / 10^e with no trailing zero in the   *)
(* fraction, so that 1.50 and 1.5 are the same number.                     *)
(***************************************************************************)
\* (TLC compares two records field by field in the order the field names first
\* appear in the module: t stands before v here, and tags are compared first.)
JsString(chars) == [t |-> "string", v |-> chars]

JsNumber(n) == [t |-> "number", v |-> n]

JsBoolean(b) == [t |-> "boolean", v |-> b]

DigitValue(c) ==
    CASE c = "0" -> 0 [] c = "1" -> 1 [] c = "2" -> 2 [] c = "3" -> 3 [] c = "4" -> 4
      [] c = "5" -> 5 [] c = "6" -> 6 [] c = "7" -> 7 [] c = "8" -> 8 [] c = "9" -> 9

RECURSIVE DigitsValue(_, _)
DigitsValue(chars, acc) ==
    IF chars = <<>> THEN acc
    ELSE DigitsValue(Tail(chars), acc * 10 + DigitValue(Head(chars)))

RECURSIVE NormalizeNumber(_, _)
NormalizeNumber(m, e) ==
    IF e > 0 /\ m % 10 = 0 THEN NormalizeNumber(m \div 10, e - 1)
    ELSE [m |-> m, e |-> e]

\* parseFloat on the text of a NUMBER token: digits, optionally '.' and digits
parseFloat(chars) ==
    LET dots == {i \in 1..Len(chars) : chars[i] = "."}
    IN  IF dots = {}
        THEN [m |-> DigitsValue(chars, 0), e |-> 0]
        ELSE LET d == CHOOSE i \in dots : TRUE
                 whole == SubSeq(chars, 1, d - 1)
                 frac == SubSeq(chars, d + 1, Len(chars))
             IN  NormalizeNumber(DigitsValue(whole \o frac, 0), Len(frac))

(***************************************************************************)
(* Words the parser compares token text with.                              *)
(***************************************************************************)
Word ==
    [w \in {"string", "number", "boolean", "null", "prompt", "list", "record",
            "dynamic", "any", "never", "true"} |->
        CASE w = "string" -> <<"s", "t", "r", "i", "n", "g">>
          [] w = "number" -> <<"n", "u", "m", "b", "e", "r">>
          [] w = "boolean" -> <<"b", "o", "o", "l", "e", "a", "n">>
          [] w = "null" -> <<"n", "u", "l", "l">>
          [] w = "prompt" -> <<"p", "r", "o", "m", "p", "t">>
          [] w = "list" -> <<"l", "i", "s", "t">>
          [] w = "record" -> <<"r", "e", "c", "o", "r", "d">>
          [] w = "dynamic" -> <<"d", "y", "n", "a", "m", "i", "c">>
          [] w = "any" -> <<"a", "n", "y">>
          [] w = "never" -> <<"n", "e", "v", "e", "r">>
          [] w = "true" -> <<"t", "r", "u", "e">>]

(***************************************************************************)
(* Parser (src/src/parser/parser.ts 287-753).  The parser state ps is      *)
(* [lx |-> the lexer's cursor, cur |-> Parser.current].  Every method      *)
(* returns POk(value, state after) or PThrow(error, state at the throw).   *)
(***************************************************************************)
POk(val, ps) == [ok |-> TRUE, val |-> val, ps |-> ps]

PThrow(err, ps) == [ok |-> FALSE, err |-> err, ps |-> ps]

\* new Error(`${message} at ${line}:${column}`) for the current token
ParseError(message, ps) ==
    [kind |-> "parse", what |-> message,
     line |-> ps.cur.location.line, column |-> ps.cur.location.column]

\* an absent optional property of an object (param.type, binding.type, ...)
Absent == [kind |-> "undefined"]

\* `const v = e; rest`: the rest of a method with the value of e bound to a name
With(v, rest(_)) == rest(v)

\* a call that may throw: the exception ends the method, a return lets it go on
Try(r, rest(_)) == IF r.ok THEN rest(r) ELSE r

\* new Lexer(input) as the parser holds it in this.lexer: for every place the
\* cursor can be, what nextToken() returns and where it leaves the cursor
Lexer_new(inp) ==
    [lx \in [position : 0..(Len(inp) + 2), line : 1..(Len(inp) + 2),
             column : 0..(Len(inp) + 3)] |-> nextToken(inp, lx)]

Parser_advance(lex, ps) ==
    IF ps.cur.type # TokenType["EOF"]
    THEN With(lex[ps.lx], LAMBDA r :
             IF r.ok THEN POk(ps.cur, [lx |-> r.lx, cur |-> r.tok])
             ELSE PThrow(r.err, [lx |-> r.lx, cur |-> ps.cur]))
    ELSE POk(ps.cur, ps)

Parser_check(ps, type) == ps.cur.type = type

Parser_match(lex, ps, type) ==
    IF Parser_check(ps, type)
    THEN Try(Parser_advance(lex, ps), LAMBDA a : POk(TRUE, a.ps))
    ELSE POk(FALSE, ps)

consume(lex, ps, type, message) ==
    IF Parser_check(ps, type) THEN Parser_advance(lex, ps)
    ELSE PThrow(ParseError(message, ps), ps)

\* peekAhead and getTokenAfterAhead have the same body: they save and restore
\* Parser.current only; the lexer's cursor stays after the token they read.
peekAhead(lex, ps, type) ==
    Try(Parser_advance(lex, ps), LAMBDA a :
        POk(Parser_check(a.ps, type), [lx |-> a.ps.lx, cur |-> ps.cur]))

getTokenAfterAhead(lex, ps, tokenType) ==
    Try(Parser_advance(lex, ps), LAMBDA a :
        POk(Parser_check(a.ps, tokenType), [lx |-> a.ps.lx, cur |-> ps.cur]))

isStartOfPrimary(ps) ==
    \/ Parser_check(ps, TokenType["STRING"])
    \/ Parser_check(ps, TokenType["NUMBER"])
    \/ Parser_check(ps, TokenType["BOOLEAN"])
    \/ Parser_check(ps, TokenType["IDENTIFIER"])
    \/ Parser_check(ps, TokenType["LPAREN"])
    \/ Parser_check(ps, TokenType["LET"])

\* the try block of isLambdaExpression: the answer and the state it leaves
isLambdaLookahead(lex, ps) ==
    Try(Parser_advance(lex, ps), LAMBDA a1 :        \* consume (
    IF Parser_check(a1.ps, TokenType["RPAREN"])
    THEN Try(Parser_advance(lex, a1.ps), LAMBDA a2 :
             POk(Parser_check(a2.ps, TokenType["ARROW"]), a2.ps))
    ELSE IF ~Parser_check(a1.ps, TokenType["IDENTIFIER"]) THEN POk(FALSE, a1.ps)
    ELSE Try(Parser_advance(lex, a1.ps), LAMBDA a3 :    \* consume identifier
         IF Parser_check(a3.ps, TokenType["COLON"])
            \/ Parser_check(a3.ps, TokenType["COMMA"])
         THEN POk(TRUE, a3.ps)
         ELSE IF Parser_check(a3.ps, TokenType["RPAREN"])
         THEN Try(Parser_advance(lex, a3.ps), LAMBDA a4 :
                  POk(Parser_check(a4.ps, TokenType["ARROW"]), a4.ps))
         ELSE POk(FALSE, a3.ps)))

\* a finally block that writes back this.current alone, as peekAhead does
restoreLexerState_currentOnly(ps, savedPosition, savedLine, savedColumn, savedCurrent) ==
    [lx |-> ps.lx, cur |-> savedCurrent]

\* the finally block of isLambdaExpression: what it writes back
restoreLexerState(ps, savedPosition, savedLine, savedColumn, savedCurrent) ==
    [lx |-> [ps.lx EXCEPT !.position = savedPosition, !.line = savedLine,
                          !.column = savedColumn],
     cur |-> savedCurrent]

isLambdaExpression(lex, ps) ==
    IF ~Parser_check(ps, TokenType["LPAREN"]) THEN POk(FALSE, ps)
    ELSE With(isLambdaLookahead(lex, ps), LAMBDA r :
         With(restoreLexerState(r.ps, ps.lx.position, ps.lx.line, ps.lx.column, ps.cur),
              LAMBDA restored :
                  IF r.ok THEN POk(r.val, restored) ELSE PThrow(r.err, restored)))

RECURSIVE parseExpression(_, _), parsePipeline(_, _), pipelineStages(_, _, _),
          pipelineLoop(_, _, _), parseApplication(_, _), applicationArgs(_, _, _),
          applicationLoop(_, _, _), parsePrimary(_, _), parseLambda(_, _),
          lambdaParams(_, _, _), parseLet(_, _), letBindings(_, _, _),
          parseTemplate(_, _), templateParts(_, _, _, _), parseType(_, _),
          functionTypeParams(_, _, _), recordTypeFields(_, _, _),
          parsePromptType(_, _), Parser_parse(_)

\* the text of an interpolation: from i up to the next '}}' (0-based, exclusive)
interpolationEnd(templateStr, i) ==
    LET ends == {j \in i..(Len(templateStr) - 2) :
                    templateStr[j + 1] = "}" /\ templateStr[j + 2] = "}"}
    IN  IF ends = {} THEN -1 ELSE CHOOSE j \in ends : \A k \in ends : j <= k

\* the do-while of parseType's function branch
functionTypeParams(lex, ps, params) ==
    Try(consume(lex, ps, TokenType["IDENTIFIER"], "Expected parameter name"), LAMBDA n :
    Try(consume(lex, n.ps, TokenType["COLON"], "Expected ':' after parameter name"),
        LAMBDA c :
    Try(parseType(lex, c.ps), LAMBDA t :
    Try(Parser_match(lex, t.ps, TokenType["QUESTION"]), LAMBDA q :
    Try(Parser_match(lex, q.ps, TokenType["COMMA"]), LAMBDA m :
        IF m.val
        THEN functionTypeParams(lex, m.ps,
                 Append(params, [name |-> n.val.value, type |-> t.val,
                                 optional |-> q.val]))
        ELSE POk(Append(params, [name |-> n.val.value, type |-> t.val,
                                 optional |-> q.val]), m.ps))))))

\* the do-while of parseType's record branch
recordTypeFields(lex, ps, fields) ==
    Try(consume(lex, ps, TokenType["IDENTIFIER"], "Expected field name"), LAMBDA n :
    Try(consume(lex, n.ps, TokenType["COLON"], "Expected ':' after field name"),
        LAMBDA c :
    Try(parseType(lex, c.ps), LAMBDA t :
    Try(Parser_match(lex, t.ps, TokenType["QUESTION"]), LAMBDA q :
    Try(Parser_match(lex, q.ps, TokenType["COMMA"]), LAMBDA m :
        IF m.val
        THEN recordTypeFields(lex, m.ps,
                 Append(fields, [name |-> n.val.value, type |-> t.val,
                                 optional |-> q.val]))
        ELSE POk(Append(fields, [name |-> n.val.value, type |-> t.val,
                                 optional |-> q.val]), m.ps))))))

\* parseType, case 'prompt', after '[' was matched
parsePromptType(lex, ps) ==
    Try(consume(lex, ps, TokenType["LPAREN"], "Expected '(' after prompt["), LAMBDA l :
    Try(parseType(lex, l.ps), LAMBDA i :
    Try(consume(lex, i.ps, TokenType["COMMA"], "Expected ',' after input type"),
        LAMBDA c :
    Try(parseType(lex, c.ps), LAMBDA o :
    Try(consume(lex, o.ps, TokenType["RPAREN"], "Expected ')' after types"), LAMBDA r :
    Try(Parser_match(lex, r.ps, TokenType["COMMA"]), LAMBDA m1 :
    With(m1.val /\ Parser_check(m1.ps, TokenType["STRING"]), LAMBDA hasModel :
    Try(IF hasModel THEN Parser_advance(lex, m1.ps) ELSE POk(Absent, m1.ps), LAMBDA a1 :
    Try(IF m1.val THEN Parser_match(lex, a1.ps, TokenType["COMMA"])
        ELSE POk(FALSE, a1.ps), LAMBDA m2 :
    With(m2.val /\ Parser_check(m2.ps, TokenType["NUMBER"]), LAMBDA hasTemp :
    Try(IF hasTemp THEN Parser_advance(lex, m2.ps) ELSE POk(Absent, m2.ps), LAMBDA a2 :
    Try(consume(lex, a2.ps, TokenType["RBRACKET"],
                "Expected ']' after prompt parameters"), LAMBDA b :
        POk([kind |-> "prompt", input |-> i.val, output |-> o.val,
             model |-> IF hasModel THEN JsString(a1.val.value) ELSE Absent,
             temperature |-> IF hasTemp THEN JsNumber(parseFloat(a2.val.value))
                             ELSE Absent],
            b.ps)))))))))))))

\* parseType once the type name n was consumed
namedType(lex, n) ==
    IF n.val.value = Word["string"] THEN POk([kind |-> "primitive", name |-> "string"], n.ps)
    ELSE IF n.val.value = Word["number"]
    THEN POk([kind |-> "primitive", name |-> "number"], n.ps)
    ELSE IF n.val.value = Word["boolean"]
    THEN POk([kind |-> "primitive", name |-> "boolean"], n.ps)
    ELSE IF n.val.value = Word["null"]
    THEN POk([kind |-> "primitive", name |-> "null"], n.ps)
    ELSE IF n.val.value = Word["prompt"]
    THEN Try(Parser_match(lex, n.ps, TokenType["LBRACKET"]), LAMBDA m :
             IF m.val THEN parsePromptType(lex, m.ps)
             ELSE POk([kind |-> "prompt", input |-> [kind |-> "any"],
                       output |-> [kind |-> "any"], model |-> Absent,
                       temperature |-> Absent], m.ps))
    ELSE IF n.val.value = Word["list"]
    THEN Try(Parser_match(lex, n.ps, TokenType["LBRACKET"]), LAMBDA m :
             IF ~m.val THEN POk([kind |-> "list", element |-> [kind |-> "any"]], m.ps)
             ELSE Try(parseType(lex, m.ps), LAMBDA e :
                  Try(consume(lex, e.ps, TokenType["RBRACKET"],
                              "Expected ']' after element type"), LAMBDA b :
                      POk([kind |-> "list", element |-> e.val], b.ps))))
    ELSE IF n.val.value = Word["record"]
    THEN Try(Parser_match(lex, n.ps, TokenType["LBRACE"]), LAMBDA m :
             IF ~m.val THEN POk([kind |-> "record", fields |-> <<>>], m.ps)
             ELSE Try(IF ~Parser_check(m.ps, TokenType["RBRACE"])
                      THEN recordTypeFields(lex, m.ps, <<>>)
                      ELSE POk(<<>>, m.ps), LAMBDA f :
                  Try(consume(lex, f.ps, TokenType["RBRACE"],
                              "Expected '}' after record fields"), LAMBDA b :
                      POk([kind |-> "record", fields |-> f.val], b.ps))))
    ELSE IF n.val.value = Word["dynamic"]
    THEN Try(Parser_match(lex, n.ps, TokenType["LBRACKET"]), LAMBDA m :
             IF ~m.val THEN POk([kind |-> "dynamic", constraint |-> Absent], m.ps)
             ELSE Try(parseType(lex, m.ps), LAMBDA e :
                  Try(consume(lex, e.ps, TokenType["RBRACKET"],
                              "Expected ']' after constraint"), LAMBDA b :
                      POk([kind |-> "dynamic", constraint |-> e.val], b.ps))))
    ELSE IF n.val.value = Word["never"] THEN POk([kind |-> "never"], n.ps)
    ELSE POk([kind |-> "any"], n.ps)       \* 'any' and every unknown name

parseType(lex, ps) ==
    Try(IF Parser_check(ps, TokenType["LPAREN"])
        THEN peekAhead(lex, ps, TokenType["IDENTIFIER"])
        ELSE POk(FALSE, ps), LAMBDA p1 :
    Try(IF p1.val THEN getTokenAfterAhead(lex, p1.ps, TokenType["COLON"])
        ELSE POk(FALSE, p1.ps), LAMBDA p2 :
    IF p2.val
    THEN \* Function type: (param: Type) -> ReturnType
         Try(Parser_advance(lex, p2.ps), LAMBDA a :      \* consume '('
         Try(IF ~Parser_check(a.ps, TokenType["RPAREN"])
             THEN functionTypeParams(lex, a.ps, <<>>)
             ELSE POk(<<>>, a.ps), LAMBDA params :
         Try(consume(lex, params.ps, TokenType["RPAREN"],
                     "Expected ')' after parameters"), LAMBDA r :
         Try(consume(lex, r.ps, TokenType["ARROW"],
                     "Expected '->' after parameters"), LAMBDA w :
         Try(parseType(lex, w.ps), LAMBDA t :
             POk([kind |-> "function", params |-> params.val, returns |-> t.val],
                 t.ps))))))
    ELSE IF Parser_check(p2.ps, TokenType["IDENTIFIER"])
    THEN Try(consume(lex, p2.ps, TokenType["IDENTIFIER"], "Expected type name"),
             LAMBDA n : namedType(lex, n))
    ELSE POk([kind |-> "any"], p2.ps)))

\* the while loop of parseTemplate over templateStr, from index i (0-based)
templateParts(templateStr, i, text, parts) ==
    IF i >= Len(templateStr)
    THEN POk(IF text # <<>> THEN Append(parts, [kind |-> "text", value |-> text])
             ELSE parts, Absent)
    ELSE IF templateStr[i + 1] = "{" /\ i + 1 < Len(templateStr) /\ templateStr[i + 2] = "{"
    THEN With(interpolationEnd(templateStr, i + 2), LAMBDA e :
             IF e < 0
             THEN \* no '}}' left: interpStr += undefined for ever
                  PThrow([kind |-> "unbounded", what |-> "{{", line |-> 0, column |-> 0],
                         Absent)
             ELSE With(Parser_parse(Slice(templateStr, i + 2, e)), LAMBDA sub :
                      IF ~sub.ok THEN PThrow(sub.err, Absent)
                      ELSE templateParts(templateStr, e + 2, <<>>,
                               Append(IF text # <<>>
                                      THEN Append(parts, [kind |-> "text", value |-> text])
                                      ELSE parts,
                                      [kind |-> "interpolation",
                                       expression |-> sub.val]))))
    ELSE templateParts(templateStr, i + 1, Append(text, templateStr[i + 1]), parts)

parseTemplate(lex, ps) ==
    Try(Parser_advance(lex, ps), LAMBDA a :
    With(templateParts(a.val.value, 0, <<>>, <<>>), LAMBDA parts :
        IF ~parts.ok THEN PThrow(parts.err, a.ps)
        ELSE POk([kind |-> "template", parts |-> parts.val,
                  location |-> ps.cur.location], a.ps)))

\* the do-while of parseLet
letBindings(lex, ps, bindings) ==
    Try(consume(lex, ps, TokenType["IDENTIFIER"], "Expected binding name"), LAMBDA n :
    Try(consume(lex, n.ps, TokenType["EQUALS"], "Expected '=' after binding name"),
        LAMBDA q :
    Try(parseExpression(lex, q.ps), LAMBDA v :
    Try(Parser_match(lex, v.ps, TokenType["COMMA"]), LAMBDA m :
        IF m.val
        THEN letBindings(lex, m.ps,
                 Append(bindings, [name |-> n.val.value, value |-> v.val,
                                   type |-> Absent]))
        ELSE POk(Append(bindings, [name |-> n.val.value, value |-> v.val,
                                   type |-> Absent]), m.ps)))))

parseLet(lex, ps) ==
    Try(letBindings(lex, ps, <<>>), LAMBDA b :
    Try(consume(lex, b.ps, TokenType["IN"], "Expected 'in' after bindings"), LAMBDA i :
    Try(parseExpression(lex, i.ps), LAMBDA body :
        POk([kind |-> "let", bindings |-> b.val, body |-> body.val,
             location |-> ps.cur.location], body.ps))))

\* the do-while of parseLambda
lambdaParams(lex, ps, params) ==
    Try(consume(lex, ps, TokenType["IDENTIFIER"], "Expected parameter name"), LAMBDA n :
    Try(Parser_match(lex, n.ps, TokenType["COLON"]), LAMBDA c :
    Try(IF c.val THEN parseType(lex, c.ps) ELSE POk(Absent, c.ps), LAMBDA t :
    Try(Parser_match(lex, t.ps, TokenType["COMMA"]), LAMBDA m :
        IF m.val
        THEN lambdaParams(lex, m.ps,
                 Append(params, [name |-> n.val.value, type |-> t.val,
                                 defaultValue |-> Absent]))
        ELSE POk(Append(params, [name |-> n.val.value, type |-> t.val,
                                 defaultValue |-> Absent]), m.ps)))))

parseLambda(lex, ps) ==
    Try(lambdaParams(lex, ps, <<>>), LAMBDA p :
    Try(consume(lex, p.ps, TokenType["RPAREN"], "Expected ')' after parameters"),
        LAMBDA r :
    Try(consume(lex, r.ps, TokenType["ARROW"], "Expected '->' after parameters"),
        LAMBDA w :
    Try(parseExpression(lex, w.ps), LAMBDA body :
        POk([kind |-> "lambda", params |-> p.val, body |-> body.val,
             returnType |-> Absent, location |-> ps.cur.location], body.ps)))))

parsePrimary(lex, ps) ==
    IF Parser_check(ps, TokenType["STRING"])
    THEN Try(Parser_advance(lex, ps), LAMBDA a :
             POk([kind |-> "literal", value |-> JsString(a.val.value),
                  location |-> a.val.location], a.ps))
    ELSE IF Parser_check(ps, TokenType["NUMBER"])
    THEN Try(Parser_advance(lex, ps), LAMBDA a :
             POk([kind |-> "literal", value |-> JsNumber(parseFloat(a.val.value)),
                  location |-> a.val.location], a.ps))
    ELSE IF Parser_check(ps, TokenType["BOOLEAN"])
    THEN Try(Parser_advance(lex, ps), LAMBDA a :
             POk([kind |-> "literal", value |-> JsBoolean(a.val.value = Word["true"]),
                  location |-> a.val.location], a.ps))
    ELSE IF Includes(ps.cur.value, <<"{", "{">>)
    THEN parseTemplate(lex, ps)
    ELSE IF Parser_check(ps, TokenType["LPAREN"])
    THEN Try(isLambdaExpression(lex, ps), LAMBDA l :
         Try(Parser_advance(lex, l.ps), LAMBDA a :      \* consume '('
             IF l.val THEN parseLambda(lex, a.ps)
             ELSE Try(parseExpression(lex, a.ps), LAMBDA e :
                  Try(consume(lex, e.ps, TokenType["RPAREN"],
                              "Expected ')' after expression"), LAMBDA r :
                      POk(e.val, r.ps)))))
    ELSE IF Parser_check(ps, TokenType["LET"])
    THEN Try(Parser_match(lex, ps, TokenType["LET"]), LAMBDA m : parseLet(lex, m.ps))
    ELSE IF Parser_check(ps, TokenType["IDENTIFIER"])
    THEN Try(Parser_advance(lex, ps), LAMBDA a :
             POk([kind |-> "identifier", name |-> a.val.value,
                  location |-> a.val.location], a.ps))
    ELSE PThrow([kind |-> "parse", what |-> "Unexpected token",
                 line |-> ps.cur.location.line, column |-> ps.cur.location.column], ps)

\* the inner while of parseApplication
applicationArgs(lex, ps, args) ==
    IF isStartOfPrimary(ps) /\ ~Parser_check(ps, TokenType["PIPE"])
    THEN Try(parsePrimary(lex, ps), LAMBDA a :
             applicationArgs(lex, a.ps, Append(args, a.val)))
    ELSE POk(args, ps)

\* the outer while of parseApplication
applicationLoop(lex, ps, left) ==
    IF isStartOfPrimary(ps)
    THEN Try(parsePrimary(lex, ps), LAMBDA first :
         Try(applicationArgs(lex, first.ps, <<first.val>>), LAMBDA args :
             applicationLoop(lex, args.ps,
                 [kind |-> "application", func |-> left, args |-> args.val,
                  location |-> left.location])))
    ELSE POk(left, ps)

parseApplication(lex, ps) ==
    Try(parsePrimary(lex, ps), LAMBDA left : applicationLoop(lex, left.ps, left.val))

\* parsePipeline without its inner while: every `|>` closes a two-stage node
pipelineStages_binary(lex, ps, stages) == POk(stages, ps)

\* the inner while of parsePipeline
pipelineStages(lex, ps, stages) ==
    Try(Parser_match(lex, ps, TokenType["PIPE"]), LAMBDA m :
        IF ~m.val THEN POk(stages, m.ps)
        ELSE Try(parseApplication(lex, m.ps), LAMBDA a :
                 pipelineStages(lex, a.ps, Append(stages, a.val))))

\* the outer while of parsePipeline
pipelineLoop(lex, ps, left) ==
    Try(Parser_match(lex, ps, TokenType["PIPE"]), LAMBDA m :
        IF ~m.val THEN POk(left, m.ps)
        ELSE Try(parseApplication(lex, m.ps), LAMBDA second :
             Try(pipelineStages(lex, second.ps, <<left, second.val>>), LAMBDA stages :
                 pipelineLoop(lex, stages.ps,
                     [kind |-> "pipeline", stages |-> stages.val,
                      location |-> stages.val[1].location]))))

parsePipeline(lex, ps) ==
    Try(parseApplication(lex, ps), LAMBDA left : pipelineLoop(lex, left.ps, left.val))

parseExpression(lex, ps) == parsePipeline(lex, ps)

\* new Parser(input): the constructor reads the first token
Parser_new(inp) ==
    With(nextToken(inp, LexerInit), LAMBDA r :
        IF r.ok THEN POk(Absent, [lx |-> r.lx, cur |-> r.tok])
        ELSE PThrow(r.err, [lx |-> r.lx, cur |-> Absent]))

\* new Parser(input).parse()
Parser_parse(inp) ==
    Try(Parser_new(inp), LAMBDA p : parseExpression(Lexer_new(inp), p.ps))

(***************************************************************************)
(* Type utilities (src/src/types/checker.ts 342-381).                      *)
(***************************************************************************)
\* isSubtype without its third rule, the one for a dynamic sub
RECURSIVE isSubtype_noDynamicRule(_, _)
isSubtype_noDynamicRule(sub, sup) ==
    IF sup.kind = "any" THEN TRUE
    ELSE IF sub.kind = "never" THEN TRUE
    ELSE IF sub.kind = sup.kind
    THEN CASE sub.kind = "primitive" -> sub.name = sup.name
           [] sub.kind = "list" -> isSubtype_noDynamicRule(sub.element, sup.element)
           [] sub.kind = "union" ->
                \A i \in 1..Len(sub.types) :
                    \E j \in 1..Len(sup.types) :
                        isSubtype_noDynamicRule(sub.types[i], sup.types[j])
           [] sub.kind = "record" ->
                \A i \in 1..Len(sup.fields) :
                    LET supField == sup.fields[i]
                        found == {j \in 1..Len(sub.fields) :
                                     sub.fields[j].name = supField.name}
                    IN  IF found = {} THEN supField.optional
                        ELSE LET j == CHOOSE j \in found : \A k \in found : j <= k
                             IN  isSubtype_noDynamicRule(sub.fields[j].type,
                                                         supField.type)
           [] OTHER -> FALSE
    ELSE IF sup.kind = "union"
    THEN \E j \in 1..Len(sup.types) : isSubtype_noDynamicRule(sub, sup.types[j])
    ELSE FALSE

RECURSIVE isSubtype(_, _)
isSubtype(sub, sup) ==
    IF sup.kind = "any" THEN TRUE
    ELSE IF sub.kind = "never" THEN TRUE
    ELSE IF sub.kind = "dynamic" THEN TRUE
    ELSE IF sub.kind = sup.kind
    THEN CASE sub.kind = "primitive" -> sub.name = sup.name
           [] sub.kind = "list" -> isSubtype(sub.element, sup.element)
           [] sub.kind = "union" ->
                \A i \in 1..Len(sub.types) :
                    \E j \in 1..Len(sup.types) : isSubtype(sub.types[i], sup.types[j])
           [] sub.kind = "record" ->
                \A i \in 1..Len(sup.fields) :
                    LET supField == sup.fields[i]
                        found == {j \in 1..Len(sub.fields) :
                                     sub.fields[j].name = supField.name}
                    IN  IF found = {} THEN supField.optional
                        ELSE LET j == CHOOSE j \in found : \A k \in found : j <= k
                             IN  isSubtype(sub.fields[j].type, supField.type)
           [] OTHER -> FALSE
    ELSE IF sup.kind = "union"
    THEN \E j \in 1..Len(sup.types) : isSubtype(sub, sup.types[j])
    ELSE FALSE

\* the loop of unionType and intersectionType that opens the arguments of
\* the constructor's own kind, one level deep
RECURSIVE flatten(_, _)
flatten(types, kind) ==
    IF types = <<>> THEN <<>>
    ELSE (IF types[1].kind = kind THEN types[1].types ELSE <<types[1]>>)
         \o flatten(Tail(types), kind)

NotNever(type) == type.kind # "never"

NotAny(type) == type.kind # "any"

\* a unionType that keeps a union argument as one member
unionType_noFlatten(types) ==
    LET unique == SelectSeq(types, NotNever)
    IN  IF Len(unique) = 0 THEN [kind |-> "never"]
        ELSE IF Len(unique) = 1 THEN unique[1]
        ELSE [kind |-> "union", types |-> unique]

\* unionType(...types), types the sequence of its arguments
unionType(types) ==
    LET flattened == flatten(types, "union")
        unique == SelectSeq(flattened, NotNever)
    IN  IF Len(unique) = 0 THEN [kind |-> "never"]
        ELSE IF Len(unique) = 1 THEN unique[1]
        ELSE [kind |-> "union", types |-> unique]

\* intersectionType(...types)
intersectionType(types) ==
    LET flattened == flatten(types, "intersection")
    IN  IF \E i \in 1..Len(flattened) : flattened[i].kind = "never"
        THEN [kind |-> "never"]
        ELSE IF \E i \in 1..Len(flattened) : flattened[i].kind = "any"
        THEN [kind |-> "intersection", types |-> SelectSeq(flattened, NotAny)]
        ELSE [kind |-> "intersection", types |-> flattened]

(***************************************************************************)
(* TypeChecker (src/src/types/checker.ts 9-250).  The checker's state st   *)
(* is [envs, errors]: envs is the store of TypeEnvironment objects, each   *)
(* [bindings, parent], an environment being its index in the store         *)
(* (parent 0: none); bindings is a Map kept as a sequence of [name, type]. *)
(***************************************************************************)
PrimitiveType(name) == [kind |-> "primitive", name |-> name]

\* Map.get: the bound type, or Absent
MapGet(bindings, name) ==
    LET found == {i \in 1..Len(bindings) : bindings[i].name = name}
    IN  IF found = {} THEN Absent ELSE bindings[CHOOSE i \in found : TRUE].type

\* Map.set: replaces the value of an existing key, else appends
MapSet(bindings, name, type) ==
    IF \E i \in 1..Len(bindings) : bindings[i].name = name
    THEN [i \in 1..Len(bindings) |->
             IF bindings[i].name = name THEN [name |-> name, type |-> type]
             ELSE bindings[i]]
    ELSE Append(bindings, [name |-> name, type |-> type])

\* the constructor's globalEnv
globalEnv ==
    [bindings |-> <<[name |-> Word["string"], type |-> PrimitiveType("string")],
                    [name |-> Word["number"], type |-> PrimitiveType("number")],
                    [name |-> Word["boolean"], type |-> PrimitiveType("boolean")]>>,
     parent |-> 0]

\* new TypeChecker(): the global environment is environment 1
TypeChecker_new == [envs |-> <<globalEnv>>, errors |-> <<>>]

RECURSIVE lookupType(_, _, _)
lookupType(name, env, envs) ==
    LET type == MapGet(envs[env].bindings, name)
    IN  IF type # Absent THEN type
        ELSE IF envs[env].parent # 0 THEN lookupType(name, envs[env].parent, envs)
        ELSE Absent

\* addError putting the new error first
addError_unshift(st, message, location) ==
    [st EXCEPT !.errors = <<[message |-> message, location |-> location]>> \o @]

addError(st, message, location) ==
    [st EXCEPT !.errors = Append(@, [message |-> message, location |-> location])]

getErrors(st) == st.errors

\* what check returns: a type and the checker's state, or a throw
Checked(type, st) == [threw |-> FALSE, type |-> type, st |-> st]

CheckThrow(what, st) == [threw |-> TRUE, type |-> Absent, st |-> st, what |-> what]

checkLiteral(node, st) ==
    LET value == node.value
    IN  IF value.t = "string" THEN Checked(PrimitiveType("string"), st)
        ELSE IF value.t = "number" THEN Checked(PrimitiveType("number"), st)
        ELSE IF value.t = "boolean" THEN Checked(PrimitiveType("boolean"), st)
        ELSE IF value.t = "null" THEN Checked(PrimitiveType("null"), st)
        ELSE Checked([kind |-> "any"], st)

checkIdentifier(node, env, st) ==
    LET type == lookupType(node.name, env, st.envs)
    IN  IF type = Absent
        THEN Checked([kind |-> "any"],
                     addError(st, [what |-> "Undefined identifier", name |-> node.name],
                              node.location))
        ELSE Checked(type, st)

\* the for loop of checkLambda: the parameter types, and newEnv's bindings
lambdaParamTypes(params) ==
    [i \in 1..Len(params) |->
        [name |-> params[i].name,
         type |-> IF params[i].type # Absent THEN params[i].type
                  ELSE [kind |-> "dynamic", constraint |-> Absent],
         optional |-> params[i].defaultValue # Absent]]

RECURSIVE SetAll(_, _)
SetAll(bindings, entries) ==
    IF entries = <<>> THEN bindings
    ELSE SetAll(MapSet(bindings, entries[1].name, entries[1].type), Tail(entries))

RECURSIVE check(_, _, _), checkLambda(_, _, _), checkApplication(_, _, _),
          checkArgs(_, _, _, _), checkLet(_, _, _), letLoop(_, _, _, _, _),
          checkPipeline(_, _, _), pipelineStageLoop(_, _, _, _, _),
          checkTemplate(_, _, _), templateLoop(_, _, _, _),
          checkTypeAnnotation(_, _, _)

\* a checkLambda that checks the body in the enclosing environment
checkLambda_bodyInEnclosing(node, env, st) ==
    LET paramTypes == lambdaParamTypes(node.params)
        body == check(node.body, env, st)
    IN  IF body.threw THEN body
        ELSE Checked([kind |-> "function", params |-> paramTypes,
                      returns |-> IF node.returnType # Absent THEN node.returnType
                                  ELSE body.type],
                     body.st)

checkLambda(node, env, st) ==
    LET paramTypes == lambdaParamTypes(node.params)
        newEnv == Len(st.envs) + 1
        st1 == [st EXCEPT !.envs = Append(@, [bindings |-> SetAll(<<>>, paramTypes),
                                              parent |-> env])]
        body == check(node.body, newEnv, st1)
    IN  IF body.threw THEN body
        ELSE Checked([kind |-> "function", params |-> paramTypes,
                      returns |-> IF node.returnType # Absent THEN node.returnType
                                  ELSE body.type],
                     body.st)

\* node.args.map(arg => this.check(arg, env))
checkArgs(args, env, st, types) ==
    IF args = <<>> THEN [threw |-> FALSE, types |-> types, st |-> st]
    ELSE LET a == check(args[1], env, st)
         IN  IF a.threw THEN a ELSE checkArgs(Tail(args), env, a.st, Append(types, a.type))

\* an argument-type loop that stops at the first mismatch
argumentErrors_firstOnly(st, argTypes, params, i, location) ==
    LET bad == {k \in i..Min(Len(argTypes), Len(params)) :
                   ~isSubtype(argTypes[k], params[k].type)}
    IN  IF bad = {} THEN st
        ELSE LET k == CHOOSE m \in bad : \A n \in bad : m <= n
             IN  addError(st, [what |-> "Type mismatch in argument", index |-> k,
                               expected |-> params[k].type, got |-> argTypes[k]],
                          location)

\* the argument-type loop of checkApplication
RECURSIVE argumentErrors(_, _, _, _, _)
argumentErrors(st, argTypes, params, i, location) ==
    IF i > Min(Len(argTypes), Len(params)) THEN st
    ELSE argumentErrors(
             IF ~isSubtype(argTypes[i], params[i].type)
             THEN addError(st, [what |-> "Type mismatch in argument", index |-> i,
                                expected |-> params[i].type, got |-> argTypes[i]],
                           location)
             ELSE st,
             argTypes, params, i + 1, location)

checkApplication(node, env, st) ==
    LET f == check(node.func, env, st) IN
    IF f.threw THEN f
    ELSE IF f.type.kind # "function"
    THEN Checked([kind |-> "any"],
                 addError(f.st, [what |-> "Cannot apply non-function type",
                                 got |-> f.type.kind], node.location))
    ELSE LET a == checkArgs(node.args, env, f.st, <<>>) IN
         IF a.threw THEN a
         ELSE LET funcType == f.type
                  required == Cardinality({i \in 1..Len(funcType.params) :
                                              ~funcType.params[i].optional})
                  st1 == IF Len(a.types) < required
                         THEN addError(a.st, [what |-> "Too few arguments",
                                              expected |-> required,
                                              got |-> Len(a.types)], node.location)
                         ELSE a.st
                  st2 == IF Len(a.types) > Len(funcType.params)
                         THEN addError(st1, [what |-> "Too many arguments",
                                             expected |-> Len(funcType.params),
                                             got |-> Len(a.types)], node.location)
                         ELSE st1
              IN  Checked(funcType.returns,
                          argumentErrors(st2, a.types, funcType.params, 1, node.location))

\* a let loop that checks each value in the new environment, where the
\* earlier bindings already are
RECURSIVE letLoop_sequential(_, _, _, _, _)
letLoop_sequential(node, env, newEnv, st, i) ==
    IF i > Len(node.bindings) THEN [threw |-> FALSE, st |-> st]
    ELSE LET binding == node.bindings[i]
             v == check(binding.value, newEnv, st)
         IN  IF v.threw THEN v
             ELSE LET bindingType == IF binding.type # Absent THEN binding.type
                                     ELSE v.type
                      st1 == IF ~isSubtype(v.type, bindingType)
                             THEN addError(v.st, [what |-> "Type mismatch in binding",
                                                  name |-> binding.name,
                                                  expected |-> bindingType,
                                                  got |-> v.type], node.location)
                             ELSE v.st
                      st2 == [st1 EXCEPT !.envs[newEnv].bindings =
                                             MapSet(@, binding.name, bindingType)]
                  IN  letLoop_sequential(node, env, newEnv, st2, i + 1)

\* the for loop of checkLet over node.bindings, from binding i
letLoop(node, env, newEnv, st, i) ==
    IF i > Len(node.bindings) THEN [threw |-> FALSE, st |-> st]
    ELSE LET binding == node.bindings[i]
             v == check(binding.value, env, st)
         IN  IF v.threw THEN v
             ELSE LET bindingType == IF binding.type # Absent THEN binding.type
                                     ELSE v.type
                      st1 == IF ~isSubtype(v.type, bindingType)
                             THEN addError(v.st, [what |-> "Type mismatch in binding",
                                                  name |-> binding.name,
                                                  expected |-> bindingType,
                                                  got |-> v.type], node.location)
                             ELSE v.st
                      st2 == [st1 EXCEPT !.envs[newEnv].bindings =
                                             MapSet(@, binding.name, bindingType)]
                  IN  letLoop(node, env, newEnv, st2, i + 1)

\* a checkLet that sets the bindings in env itself, with no new environment
checkLet_noChild(node, env, st) ==
    LET b == letLoop(node, env, env, st, 1)
    IN  IF b.threw THEN b ELSE check(node.body, env, b.st)

checkLet(node, env, st) ==
    LET newEnv == Len(st.envs) + 1
        st1 == [st EXCEPT !.envs = Append(@, [bindings |-> <<>>, parent |-> env])]
        b == letLoop(node, env, newEnv, st1, 1)
    IN  IF b.threw THEN b ELSE check(node.body, newEnv, b.st)

\* a stage loop in which a function stage without parameters makes the
\* current type any
RECURSIVE pipelineStageLoop_zeroParamsAny(_, _, _, _, _)
pipelineStageLoop_zeroParamsAny(node, env, st, currentType, i) ==
    IF i > Len(node.stages) THEN Checked(currentType, st)
    ELSE LET s == check(node.stages[i], env, st) IN
         IF s.threw THEN s
         ELSE IF s.type.kind = "function" /\ Len(s.type.params) = 0
         THEN pipelineStageLoop_zeroParamsAny(node, env,
                  addError(s.st, [what |-> "Pipeline stage expects no arguments",
                                  stage |-> i - 1], node.location),
                  [kind |-> "any"], i + 1)
         ELSE IF s.type.kind = "function"
         THEN pipelineStageLoop_zeroParamsAny(node, env,
                  IF ~isSubtype(currentType, s.type.params[1].type)
                  THEN addError(s.st, [what |-> "Type mismatch in pipeline stage",
                                       stage |-> i - 1,
                                       expected |-> s.type.params[1].type,
                                       got |-> currentType], node.location)
                  ELSE s.st,
                  s.type.returns, i + 1)
         ELSE pipelineStageLoop_zeroParamsAny(node, env,
                  addError(s.st, [what |-> "Pipeline stage is not a function",
                                  stage |-> i - 1], node.location),
                  [kind |-> "any"], i + 1)

\* the for loop of checkPipeline, from stage i (1-based here, i - 1 in messages)
pipelineStageLoop(node, env, st, currentType, i) ==
    IF i > Len(node.stages) THEN Checked(currentType, st)
    ELSE LET s == check(node.stages[i], env, st) IN
         IF s.threw THEN s
         ELSE IF s.type.kind = "function"
         THEN LET params == s.type.params
                  st1 == IF Len(params) = 0
                         THEN addError(s.st, [what |-> "Pipeline stage expects no arguments",
                                              stage |-> i - 1], node.location)
                         ELSE IF ~isSubtype(currentType, params[1].type)
                         THEN addError(s.st, [what |-> "Type mismatch in pipeline stage",
                                              stage |-> i - 1,
                                              expected |-> params[1].type,
                                              got |-> currentType], node.location)
                         ELSE s.st
              IN  pipelineStageLoop(node, env, st1, s.type.returns, i + 1)
         ELSE pipelineStageLoop(node, env,
                  addError(s.st, [what |-> "Pipeline stage is not a function",
                                  stage |-> i - 1], node.location),
                  [kind |-> "any"], i + 1)

checkPipeline(node, env, st) ==
    IF node.stages = <<>>
    THEN \* check(undefined, env) reads undefined.kind
         CheckThrow("Cannot read properties of undefined", st)
    ELSE LET first == check(node.stages[1], env, st)
         IN  IF first.threw THEN first
             ELSE pipelineStageLoop(node, env, first.st, first.type, 2)

\* the for loop of checkTemplate over node.parts, from part i
templateLoop(node, env, st, i) ==
    IF i > Len(node.parts) THEN [threw |-> FALSE, st |-> st]
    ELSE IF node.parts[i].kind = "interpolation"
    THEN LET e == check(node.parts[i].expression, env, st)
         IN  IF e.threw THEN e ELSE templateLoop(node, env, e.st, i + 1)
    ELSE templateLoop(node, env, st, i + 1)

checkTemplate(node, env, st) ==
    LET t == templateLoop(node, env, st, 1)
    IN  IF t.threw THEN t ELSE Checked(PrimitiveType("string"), t.st)

checkTypeAnnotation(node, env, st) ==
    LET e == check(node.expression, env, st)
    IN  IF e.threw THEN e
        ELSE Checked(node.type,
                     IF ~isSubtype(e.type, node.type)
                     THEN addError(e.st, [what |-> "Type annotation mismatch",
                                          expected |-> node.type, got |-> e.type],
                                   node.location)
                     ELSE e.st)

check(node, env, st) ==
    CASE node.kind = "literal" -> checkLiteral(node, st)
      [] node.kind = "identifier" -> checkIdentifier(node, env, st)
      [] node.kind = "lambda" -> checkLambda(node, env, st)
      [] node.kind = "application" -> checkApplication(node, env, st)
      [] node.kind = "let" -> checkLet(node, env, st)
      [] node.kind = "pipeline" -> checkPipeline(node, env, st)
      [] node.kind = "template" -> checkTemplate(node, env, st)
      [] node.kind = "type_annotation" -> checkTypeAnnotation(node, env, st)
      [] OTHER -> CheckThrow("Unknown node kind", st)

(***************************************************************************)
(* JavaScript values a Schema sees.  An object is its own properties in    *)
(* insertion order, [key, value] each; an array its items.                 *)
(***************************************************************************)
JsNull == [t |-> "null"]

JsUndefined == [t |-> "undefined"]

JsObject(entries) == [t |-> "object", entries |-> entries]

JsArray(items) == [t |-> "array", items |-> items]

\* NaN, kept apart from the natural numbers the other number values hold
NaN == [t |-> "number", v |-> -1]

\* a TypeError thrown by a property access
Thrown == [t |-> "throw"]

\* typeof value
TypeOf(value) == IF value.t \in {"object", "array", "null"} THEN "object" ELSE value.t

\* the decimal digits of a natural number
RECURSIVE NumText(_)
NumText(n) ==
    LET d == <<"0", "1", "2", "3", "4", "5", "6", "7", "8", "9">>[(n % 10) + 1]
    IN  IF n < 10 THEN <<d>> ELSE Append(NumText(n \div 10), d)

\* Object.keys(value)
ObjectKeys(value) ==
    IF value.t = "object" THEN [i \in 1..Len(value.entries) |-> value.entries[i].key]
    ELSE IF value.t = "array" THEN [i \in 1..Len(value.items) |-> NumText(i - 1)]
    ELSE <<>>

\* key in value, for an object or an array
HasProperty(value, key) == \E i \in 1..Len(ObjectKeys(value)) : ObjectKeys(value)[i] = key

\* value[key]: a TypeError on null and undefined, undefined when there is no
\* such property
GetProperty(value, key) ==
    IF value.t \in {"null", "undefined"} THEN Thrown
    ELSE IF value.t = "object" /\ HasProperty(value, key)
    THEN value.entries[CHOOSE i \in 1..Len(value.entries) :
                           value.entries[i].key = key].value
    ELSE IF value.t = "array" /\ HasProperty(value, key)
    THEN value.items[CHOOSE i \in 1..Len(value.items) : NumText(i - 1) = key]
    ELSE JsUndefined

\* object[key] = v
SetProperty(object, key, v) ==
    IF HasProperty(object, key)
    THEN JsObject([i \in 1..Len(object.entries) |->
                      IF object.entries[i].key = key THEN [key |-> key, value |-> v]
                      ELSE object.entries[i]])
    ELSE JsObject(Append(object.entries, [key |-> key, value |-> v]))

\* { ...value }
Spread(value) ==
    IF value.t = "object" THEN value
    ELSE IF value.t = "array"
    THEN JsObject([i \in 1..Len(value.items) |->
                      [key |-> NumText(i - 1), value |-> value.items[i]]])
    ELSE JsObject(<<>>)

LowerChar(c) ==
    CASE c = "A" -> "a" [] c = "B" -> "b" [] c = "C" -> "c" [] c = "D" -> "d"
      [] c = "E" -> "e" [] c = "F" -> "f" [] c = "G" -> "g" [] c = "H" -> "h"
      [] c = "I" -> "i" [] c = "J" -> "j" [] c = "K" -> "k" [] c = "L" -> "l"
      [] c = "M" -> "m" [] c = "N" -> "n" [] c = "O" -> "o" [] c = "P" -> "p"
      [] c = "Q" -> "q" [] c = "R" -> "r" [] c = "S" -> "s" [] c = "T" -> "t"
      [] c = "U" -> "u" [] c = "V" -> "v" [] c = "W" -> "w" [] c = "X" -> "x"
      [] c = "Y" -> "y" [] c = "Z" -> "z" [] OTHER -> c

\* s.toLowerCase()
toLowerCase(chars) == [i \in 1..Len(chars) |-> LowerChar(chars[i])]

WhiteSpace == {" ", "\n", "\t", "\r"}

RECURSIVE TrimStart(_)
TrimStart(chars) ==
    IF chars # <<>> /\ Head(chars) \in WhiteSpace THEN TrimStart(Tail(chars)) ELSE chars

RECURSIVE TrimEnd(_)
TrimEnd(chars) ==
    IF chars # <<>> /\ chars[Len(chars)] \in WhiteSpace
    THEN TrimEnd(SubSeq(chars, 1, Len(chars) - 1))
    ELSE chars

\* Number(string), for strings of digits, letters and white space
Number(chars) ==
    LET t == TrimEnd(TrimStart(chars))
    IN  IF t = <<>> THEN JsNumber(0)
        ELSE IF \A i \in 1..Len(t) : isDigit(t[i]) THEN JsNumber(DigitsValue(t, 0))
        ELSE NaN

isNaN(num) == num = NaN

\* String(value)
String(value) ==
    CASE value.t = "string" -> value
      [] value.t = "number" -> JsString(NumText(value.v))
      [] value.t = "boolean" ->
            JsString(IF value.v THEN Word["true"] ELSE <<"f", "a", "l", "s", "e">>)
      [] value.t = "null" -> JsString(<<"n", "u", "l", "l">>)
      [] value.t = "undefined" -> JsString(UndefinedText)
      [] value.t = "array" /\ value.items = <<>> -> JsString(<<>>)
      [] OTHER -> JsString(<<"[", "o", "b", "j", "e", "c", "t", "]">>)

(***************************************************************************)
(* JSON.parse, on texts of objects, arrays, strings without escapes,       *)
(* natural numbers, true, false and null.  Positions are 1-based.          *)
(***************************************************************************)
JsonOk(val, pos) == [ok |-> TRUE, val |-> val, pos |-> pos]

JsonFail == [ok |-> FALSE]

RECURSIVE jsonSkip(_, _)
jsonSkip(text, pos) ==
    IF pos <= Len(text) /\ text[pos] \in WhiteSpace THEN jsonSkip(text, pos + 1) ELSE pos

StartsWith(text, pos, word) ==
    /\ pos + Len(word) - 1 <= Len(text)
    /\ SubSeq(text, pos, pos + Len(word) - 1) = word

RECURSIVE jsonStringEnd(_, _)
jsonStringEnd(text, pos) ==
    IF pos > Len(text) THEN 0
    ELSE IF text[pos] = "\"" THEN pos
    ELSE IF text[pos] \in {"\\", "\n", "\t", "\r"} THEN 0
    ELSE jsonStringEnd(text, pos + 1)

RECURSIVE jsonDigitsEnd(_, _)
jsonDigitsEnd(text, pos) ==
    IF pos <= Len(text) /\ isDigit(text[pos]) THEN jsonDigitsEnd(text, pos + 1) ELSE pos

\* the string starting at the quote at pos
jsonString(text, pos) ==
    LET close == jsonStringEnd(text, pos + 1)
    IN  IF close = 0 THEN JsonFail
        ELSE JsonOk(JsString(SubSeq(text, pos + 1, close - 1)), close + 1)

RECURSIVE jsonValue(_, _), jsonMembers(_, _, _), jsonElements(_, _, _)

jsonValue(text, pos0) ==
    LET pos == jsonSkip(text, pos0) IN
    IF pos > Len(text) THEN JsonFail
    ELSE IF text[pos] = "{"
    THEN LET q == jsonSkip(text, pos + 1)
         IN  IF q <= Len(text) /\ text[q] = "}" THEN JsonOk(JsObject(<<>>), q + 1)
             ELSE jsonMembers(text, q, JsObject(<<>>))
    ELSE IF text[pos] = "["
    THEN LET q == jsonSkip(text, pos + 1)
         IN  IF q <= Len(text) /\ text[q] = "]" THEN JsonOk(JsArray(<<>>), q + 1)
             ELSE jsonElements(text, q, <<>>)
    ELSE IF text[pos] = "\"" THEN jsonString(text, pos)
    ELSE IF isDigit(text[pos])
    THEN LET e == jsonDigitsEnd(text, pos)
         IN  IF (text[pos] = "0" /\ e > pos + 1)
                \/ (e <= Len(text) /\ text[e] \in {".", "e", "E"})
             THEN JsonFail
             ELSE JsonOk(JsNumber(DigitsValue(SubSeq(text, pos, e - 1), 0)), e)
    ELSE IF StartsWith(text, pos, <<"n", "u", "l", "l">>) THEN JsonOk(JsNull, pos + 4)
    ELSE IF StartsWith(text, pos, Word["true"]) THEN JsonOk(JsBoolean(TRUE), pos + 4)
    ELSE IF StartsWith(text, pos, <<"f", "a", "l", "s", "e">>)
    THEN JsonOk(JsBoolean(FALSE), pos + 5)
    ELSE JsonFail

\* "key": value, ... } from pos; a repeated key keeps its place, the last value
jsonMembers(text, pos, object) ==
    IF pos > Len(text) \/ text[pos] # "\"" THEN JsonFail
    ELSE LET k == jsonString(text, pos) IN
         IF ~k.ok THEN JsonFail
         ELSE LET c == jsonSkip(text, k.pos) IN
              IF c > Len(text) \/ text[c] # ":" THEN JsonFail
              ELSE LET v == jsonValue(text, c + 1) IN
                   IF ~v.ok THEN JsonFail
                   ELSE LET next == SetProperty(object, k.val.v, v.val)
                            q == jsonSkip(text, v.pos)
                        IN  IF q > Len(text) THEN JsonFail
                            ELSE IF text[q] = "}" THEN JsonOk(next, q + 1)
                            ELSE IF text[q] = ","
                            THEN jsonMembers(text, jsonSkip(text, q + 1), next)
                            ELSE JsonFail

\* value, ... ] from pos
jsonElements(text, pos, items) ==
    LET v == jsonValue(text, pos) IN
    IF ~v.ok THEN JsonFail
    ELSE LET q == jsonSkip(text, v.pos)
         IN  IF q > Len(text) THEN JsonFail
             ELSE IF text[q] = "]" THEN JsonOk(JsArray(Append(items, v.val)), q + 1)
             ELSE IF text[q] = "," THEN jsonElements(text, q + 1, Append(items, v.val))
             ELSE JsonFail

\* JSON.parse(text): the value, or a SyntaxError
JSON_parse(text) ==
    LET v == jsonValue(text, 1)
    IN  IF v.ok /\ jsonSkip(text, v.pos) > Len(text) THEN [ok |-> TRUE, val |-> v.val]
        ELSE [ok |-> FALSE, val |-> JsUndefined]

(***************************************************************************)
(* Schema (src/src/types/checker.ts 437-641).  A schema is [name, fields]; *)
(* a field is [name, type, required, validation, default], validation     *)
(* being Absent or a named predicate, and default JsUndefined when the     *)
(* field has none.                                                         *)
(***************************************************************************)
ValidationError(path, message) == [path |-> path, message |-> message]

\* a validation function, by name
Predicate(name) == [kind |-> "function", name |-> name]

\* field.validation(value), for the predicates the schemas below use
applyValidation(validation, value) ==
    CASE validation.name = "adult" -> value.t = "number" /\ value # NaN /\ value.v >= 18
      [] validation.name = "nonEmpty" -> value.t = "string" /\ value.v # <<>>
      [] OTHER -> TRUE

RECURSIVE validateType(_, _)
validateType(value, type) ==
    CASE type.kind = "primitive" ->
            CASE type.name = "string" -> TypeOf(value) = "string"
              [] type.name = "number" -> TypeOf(value) = "number"
              [] type.name = "boolean" -> TypeOf(value) = "boolean"
              [] type.name = "null" -> value = JsNull
              [] OTHER -> FALSE
      [] type.kind = "list" ->
            /\ value.t = "array"
            /\ \A i \in 1..Len(value.items) : validateType(value.items[i], type.element)
      [] type.kind = "union" ->
            \E i \in 1..Len(type.types) : validateType(value, type.types[i])
      [] type.kind = "record" ->
            /\ TypeOf(value) = "object"
            /\ value # JsNull
            /\ \A i \in 1..Len(type.fields) :
                  \/ type.fields[i].optional /\ ~HasProperty(value, type.fields[i].name)
                  \/ validateType(GetProperty(value, type.fields[i].name),
                                  type.fields[i].type)
      [] type.kind \in {"any", "dynamic"} -> TRUE
      [] OTHER -> FALSE

\* a validateField that runs the custom validation whatever the type test said
validateFieldRun_predicateAlways(field, value, path) ==
    [errors |->
        (IF ~validateType(value, field.type)
         THEN <<ValidationError(path, [what |-> "Expected type", expected |-> field.type,
                                       got |-> TypeOf(value)])>>
         ELSE <<>>)
        \o (IF field.validation # Absent /\ ~applyValidation(field.validation, value)
            THEN <<ValidationError(path, [what |-> "Custom validation failed",
                                          field |-> field.name])>>
            ELSE <<>>),
     calls |-> IF field.validation # Absent THEN <<field.name>> ELSE <<>>]

\* validateField: the errors it returns, and calls, the field's name when
\* field.validation(value) was called
validateFieldRun(field, value, path) ==
    IF ~validateType(value, field.type)
    THEN [errors |-> <<ValidationError(path, [what |-> "Expected type",
                                              expected |-> field.type,
                                              got |-> TypeOf(value)])>>,
          calls |-> <<>>]
    ELSE IF field.validation # Absent
    THEN [errors |-> IF ~applyValidation(field.validation, value)
                     THEN <<ValidationError(path, [what |-> "Custom validation failed",
                                                   field |-> field.name])>>
                     ELSE <<>>,
          calls |-> <<field.name>>]
    ELSE [errors |-> <<>>, calls |-> <<>>]

validateField(field, value, path) == validateFieldRun(field, value, path).errors

\* the first test of validate without its null case
notAnObject_typeofOnly(value) == TypeOf(value) # "object"

\* the first test of validate
notAnObject(value) == TypeOf(value) # "object" \/ value = JsNull

\* the body of validate's loop without its continue
validateStep_noContinue(field, fieldValue) ==
    (IF fieldValue = JsUndefined /\ field.required /\ field.default = JsUndefined
     THEN <<ValidationError(field.name, [what |-> "Required field is missing",
                                         field |-> field.name])>>
     ELSE <<>>)
    \o validateField(field, fieldValue, field.name)

\* the body of validate's loop with the field's value read: the errors it pushes
validateStep(field, fieldValue) ==
    IF fieldValue = JsUndefined
    THEN IF field.required /\ field.default = JsUndefined
         THEN <<ValidationError(field.name, [what |-> "Required field is missing",
                                             field |-> field.name])>>
         ELSE <<>>
    ELSE validateField(field, fieldValue, field.name)

\* validate's loop over the fields, from field i
RECURSIVE validateLoop(_, _, _, _)
validateLoop(fields, value, errs, i) ==
    IF i > Len(fields) THEN [threw |-> FALSE, valid |-> errs = <<>>, errors |-> errs]
    ELSE LET fieldValue == GetProperty(value, fields[i].name)
         IN  IF fieldValue = Thrown
             THEN [threw |-> TRUE, valid |-> FALSE, errors |-> errs]
             ELSE validateLoop(fields, value,
                               errs \o validateStep(fields[i], fieldValue), i + 1)

\* the calls of custom validations validate's loop makes, from field i
RECURSIVE validationCalls(_, _, _)
validationCalls(fields, value, i) ==
    IF i > Len(fields) \/ notAnObject(value) THEN <<>>
    ELSE LET fieldValue == GetProperty(value, fields[i].name)
         IN  IF fieldValue = Thrown THEN <<>>
             ELSE (IF fieldValue = JsUndefined THEN <<>>
                   ELSE validateFieldRun(fields[i], fieldValue, fields[i].name).calls)
                  \o validationCalls(fields, value, i + 1)

validate(schema, value) ==
    IF notAnObject(value)
    THEN [threw |-> FALSE, valid |-> FALSE,
          errors |-> <<ValidationError(<<>>, [what |-> "Value must be an object"])>>]
    ELSE validateLoop(schema.fields, value, <<>>, 1)

\* the key looked up without folding case
findKey_exact(keys, name) ==
    IF \E i \in 1..Len(keys) : keys[i] = name THEN JsString(name) ELSE JsUndefined

\* Object.keys(value).find(k => k.toLowerCase() === name.toLowerCase())
findKey(keys, name) ==
    LET found == {i \in 1..Len(keys) : toLowerCase(keys[i]) = toLowerCase(name)}
    IN  IF found = {} THEN JsUndefined
        ELSE JsString(keys[CHOOSE i \in found : \A j \in found : i <= j])

\* the type coercion attempts of attemptFix
coerce(field, fieldValue) ==
    IF field.type.kind # "primitive" THEN fieldValue
    ELSE CASE field.type.name = "number" ->
                 IF TypeOf(fieldValue) = "string" /\ ~isNaN(Number(fieldValue.v))
                 THEN Number(fieldValue.v) ELSE fieldValue
           [] field.type.name = "boolean" ->
                 IF TypeOf(fieldValue) = "string"
                 THEN JsBoolean(toLowerCase(fieldValue.v) = Word["true"])
                 ELSE fieldValue
           [] field.type.name = "string" ->
                 IF TypeOf(fieldValue) # "string" THEN String(fieldValue) ELSE fieldValue
           [] OTHER -> fieldValue

\* attemptFix's loop over the fields, from field i
RECURSIVE attemptFixLoop(_, _, _, _)
attemptFixLoop(fields, value, fixed, i) ==
    IF i > Len(fields) THEN fixed
    ELSE LET field == fields[i]
             actualField == findKey(ObjectKeys(value), field.name)
         IN  attemptFixLoop(fields, value,
                 IF actualField # JsUndefined /\ actualField.v # <<>>
                 THEN SetProperty(fixed, field.name,
                                  coerce(field, GetProperty(value, actualField.v)))
                 ELSE IF field.default # JsUndefined
                 THEN SetProperty(fixed, field.name, field.default)
                 ELSE fixed,
                 i + 1)

attemptFix(schema, value) ==
    IF notAnObject(value) THEN value
    ELSE attemptFixLoop(schema.fields, value, JsObject(<<>>), 1)

RECURSIVE applyDefaultsLoop(_, _, _)
applyDefaultsLoop(fields, object, i) ==
    IF i > Len(fields) THEN object
    ELSE applyDefaultsLoop(fields,
             IF ~HasProperty(object, fields[i].name) /\ fields[i].default # JsUndefined
             THEN SetProperty(object, fields[i].name, fields[i].default)
             ELSE object,
             i + 1)

applyDefaults(schema, value) == applyDefaultsLoop(schema.fields, Spread(value), 1)

(***************************************************************************)
(* The match of the fenced code block pattern in parse: a fence of three   *)
(* backquotes, an optional json, white space, a lazy capture group, white  *)
(* space, a fence.  Positions are 0-based.                                 *)
(***************************************************************************)
\* the backquote character, which a TLA+ string cannot hold
Backquote == "backquote"

Fence == <<Backquote, Backquote, Backquote>>

IsFence(text, i) == i + 3 <= Len(text) /\ Slice(text, i, i + 3) = Fence

\* where the match can start: a fence with another one after it
fenceOpens(text) ==
    {i \in 0..Len(text) : IsFence(text, i) /\ \E p \in (i + 3)..Len(text) : IsFence(text, p)}

RECURSIVE skipSpaces(_, _)
skipSpaces(text, i) ==
    IF i < Len(text) /\ text[i + 1] \in WhiteSpace THEN skipSpaces(text, i + 1) ELSE i

\* where the capture group starts: after the opening fence, json and white space
groupStart(text, open) ==
    LET tag == <<"j", "s", "o", "n">>
        after == open + 3
    IN  skipSpaces(text, IF IsFence(text, open) /\ Slice(text, after, after + 4) = tag
                            /\ after + 4 <= Len(text)
                         THEN after + 4 ELSE after)

\* a capture group that runs to the last fence of the text
fenceClose_greedy(text, from) ==
    CHOOSE p \in from..Len(text) :
        IsFence(text, p) /\ \A r \in from..Len(text) : IsFence(text, r) => r <= p

\* the closing fence of the lazy capture group: the first fence from there on
fenceClose(text, from) ==
    CHOOSE p \in from..Len(text) :
        IsFence(text, p) /\ \A r \in from..Len(text) : IsFence(text, r) => p <= r

\* jsonMatch: whether the pattern matches, and jsonMatch[1]
fenceMatch(text) ==
    IF fenceOpens(text) = {} THEN [found |-> FALSE, group |-> <<>>]
    ELSE LET open == CHOOSE i \in fenceOpens(text) : \A j \in fenceOpens(text) : i <= j
             from == groupStart(text, open)
             close == fenceClose(text, from)
         IN  [found |-> TRUE, group |-> TrimEnd(Slice(text, from, close))]

(***************************************************************************)
(* Schema.parse.  reentries counts the calls parse makes to itself.        *)
(***************************************************************************)
ParseSuccess(value) ==
    [success |-> TRUE, value |-> value, errors |-> <<>>, reentries |-> 0]

ParseFailure(errs) ==
    [success |-> FALSE, value |-> JsUndefined, errors |-> errs, reentries |-> 0]

\* a try block that takes what attemptFix made without validating it again
parseTry_noRevalidation(schema, text) ==
    LET parsed == JSON_parse(text) IN
    IF ~parsed.ok THEN [threw |-> TRUE]
    ELSE LET validation == validate(schema, parsed.val) IN
         IF validation.threw THEN [threw |-> TRUE]
         ELSE IF validation.valid
         THEN [threw |-> FALSE, result |-> ParseSuccess(applyDefaults(schema, parsed.val))]
         ELSE [threw |-> FALSE,
               result |-> ParseSuccess(applyDefaults(schema,
                                                     attemptFix(schema, parsed.val)))]

\* the try block of parse: what it returns, or that it threw
parseTry(schema, text) ==
    LET parsed == JSON_parse(text) IN
    IF ~parsed.ok THEN [threw |-> TRUE]
    ELSE LET validation == validate(schema, parsed.val) IN
         IF validation.threw THEN [threw |-> TRUE]
         ELSE IF validation.valid
         THEN [threw |-> FALSE, result |-> ParseSuccess(applyDefaults(schema, parsed.val))]
         ELSE LET fixed == attemptFix(schema, parsed.val)
                  revalidation == validate(schema, fixed)
              IN  IF revalidation.threw THEN [threw |-> TRUE]
                  ELSE IF revalidation.valid
                  THEN [threw |-> FALSE,
                        result |-> ParseSuccess(applyDefaults(schema, fixed))]
                  ELSE [threw |-> FALSE, result |-> ParseFailure(revalidation.errors)]

RECURSIVE Schema_parse(_, _)
Schema_parse(schema, text) ==
    LET try == parseTry(schema, text) IN
    IF ~try.threw THEN try.result
    ELSE LET jsonMatch == fenceMatch(text) IN
         IF jsonMatch.found
         THEN [Schema_parse(schema, jsonMatch.group) EXCEPT !.reentries = @ + 1]
         ELSE ParseFailure(<<ValidationError(<<>>, [what |-> "Failed to parse JSON"])>>)

\* Object.fromEntries: a later entry of the same key replaces the value
RECURSIVE fromEntries(_, _)
fromEntries(entries, object) ==
    IF entries = <<>> THEN object
    ELSE fromEntries(Tail(entries),
             IF \E i \in 1..Len(object) : object[i].key = entries[1].key
             THEN [i \in 1..Len(object) |->
                      IF object[i].key = entries[1].key THEN entries[1] ELSE object[i]]
             ELSE Append(object, entries[1]))

RECURSIVE typeToOpenAISchema(_)
typeToOpenAISchema(type) ==
    CASE type.kind = "primitive" /\ type.name \in {"string", "number", "boolean", "null"} ->
            [type |-> type.name]
      [] type.kind = "list" ->
            [type |-> "array", items |-> typeToOpenAISchema(type.element)]
      [] type.kind = "union" ->
            [oneOf |-> [i \in 1..Len(type.types) |-> typeToOpenAISchema(type.types[i])]]
      [] type.kind = "record" ->
            [type |-> "object",
             properties |->
                 fromEntries([i \in 1..Len(type.fields) |->
                                 [key |-> type.fields[i].name,
                                  value |-> typeToOpenAISchema(type.fields[i].type)]],
                             <<>>),
             required |->
                 LET kept == SelectSeq(type.fields, LAMBDA f : ~f.optional)
                 IN  [i \in 1..Len(kept) |-> kept[i].name]]
      [] OTHER -> [type |-> "string"]

\* a toOpenAISchema that lists every declared field as required
toOpenAISchema_allRequired(definition) ==
    [type |-> "object",
     properties |->
         fromEntries([i \in 1..Len(definition.fields) |->
                         [key |-> definition.fields[i].name,
                          value |-> typeToOpenAISchema(definition.fields[i].type)]],
                     <<>>),
     required |-> [i \in 1..Len(definition.fields) |-> definition.fields[i].name]]

toOpenAISchema(definition) ==
    [type |-> "object",
     properties |->
         fromEntries([i \in 1..Len(definition.fields) |->
                         [key |-> definition.fields[i].name,
                          value |-> typeToOpenAISchema(definition.fields[i].type)]],
                     <<>>),
     required |->
         LET kept == SelectSeq(definition.fields, LAMBDA f : f.required)
         IN  [i \in 1..Len(kept) |-> kept[i].name]]

(***************************************************************************)
(* Source texts.  A source text is put together from lexemes joined by one *)
(* space; origin records the pieces.                                       *)
(***************************************************************************)
SeqsUpTo(S, n) == UNION {[1..k -> S] : k \in 0..n}

SeqsFromTo(S, lo, hi) == UNION {[1..k -> S] : k \in lo..hi}

RECURSIVE Join(_, _)
Join(pieces, sep) ==
    IF pieces = <<>> THEN <<>>
    ELSE IF Len(pieces) = 1 THEN pieces[1]
    ELSE pieces[1] \o sep \o Join(Tail(pieces), sep)

Lexemes ==
    {<<"a">>, <<"f">>, <<"\"", "s", "\"">>, <<"1">>, <<"|", ">">>, <<"(">>, <<")">>,
     <<"-", ">">>, <<":">>, <<",">>, <<"l", "e", "t">>, <<"i", "n">>, <<"=">>,
     <<"\n">>, <<"\"", "\"", "\"", "{", "{", "a", "}", "}", "\"", "\"", "\"">>}

StageTexts ==
    {<<"\"", "r", "a", "w", " ", "t", "e", "x", "t", "\"">>,
     <<"s", "a", "n", "i", "t", "i", "z", "e">>,
     <<"v", "a", "l", "i", "d", "a", "t", "e">>,
     <<"f", " ", "a">>,
     <<"1">>}

BindingNames == {<<"n", "a", "m", "e">>, <<"a", "g", "e">>}

BindingValues ==
    {<<"\"", "A", "l", "i", "c", "e", "\"">>, <<"3", "0">>, <<"t", "r", "u", "e">>}

TemplatePieces ==
    {[kind |-> "text", text |-> <<"H", "i", " ">>],
     [kind |-> "interpolation", text |-> <<" ", "x", " ">>],
     [kind |-> "interpolation",
      text |-> <<" ", "x", " ", "|", ">", " ", "u", "p", "p", "e", "r", " ">>]}

RenderBinding(b) == b.name \o <<" ", "=", " ">> \o b.value

RenderPiece(p) ==
    IF p.kind = "text" THEN p.text ELSE <<"{", "{">> \o p.text \o <<"}", "}">>

RECURSIVE Concat(_)
Concat(pieces) == IF pieces = <<>> THEN <<>> ELSE pieces[1] \o Concat(Tail(pieces))

FreeOrigins ==
    {[family |-> "free", parts |-> p] : p \in SeqsUpTo(Lexemes, MaxToks)}

PipelineOrigins ==
    {[family |-> "pipeline", parts |-> p] : p \in SeqsFromTo(StageTexts, 2, MaxStages)}

\* let b1, ..., bk in n, with distinct bound names and n one of them
LetOrigins ==
    {[family |-> "let", parts |-> b, body |-> b[i].name] :
        <<b, i>> \in {q \in SeqsFromTo([name : BindingNames, value : BindingValues],
                                       1, MaxBindings) \X (1..MaxBindings) :
                        /\ q[2] <= Len(q[1])
                        /\ \A j, k \in 1..Len(q[1]) :
                              j # k => q[1][j].name # q[1][k].name}}

TemplateOrigins ==
    {[family |-> "template", parts |-> p] :
        p \in {s \in SeqsFromTo(TemplatePieces, 1, MaxParts) :
                 /\ \E i \in 1..Len(s) : s[i].kind = "interpolation"
                 /\ \A i \in 1..(Len(s) - 1) :
                       ~(s[i].kind = "text" /\ s[i + 1].kind = "text")}}

ParamNames == {<<"x">>, <<"y">>}

\* <<>> stands for a parameter written without annotation
ParamAnnotations == {<<>>, <<"s", "t", "r", "i", "n", "g">>, <<"n", "u", "m", "b", "e", "r">>}

LambdaBodies ==
    {<<"x">>, <<"y">>, <<"1">>,
     <<"u", "p", "p", "e", "r", "c", "a", "s", "e", " ", "x">>}

RenderParam(p) ==
    IF p.type = <<>> THEN p.name ELSE p.name \o <<":", " ">> \o p.type

\* (p1, ..., pk) -> body with k = 0 for ()
LambdaOrigins ==
    {[family |-> "lambda", parts |-> p, body |-> b] :
        p \in SeqsUpTo([name : ParamNames, type : ParamAnnotations], MaxParams),
        b \in LambdaBodies}

\* (f: (n: T) -> R) -> f, with parts = <<[name |-> n, type |-> T]>> and body = R
HigherOrderOrigins ==
    {[family |-> "higher", parts |-> <<p>>, body |-> r] :
        p \in [name : ParamNames, type : ParamAnnotations \ {<<>>}],
        r \in ParamAnnotations \ {<<>>}}

\* ( e ) with nothing after the closing parenthesis
GroupOrigins == {[family |-> "group", parts |-> <<e>>] : e \in StageTexts}

Render(o) ==
    CASE o.family = "free" -> Join(o.parts, <<" ">>)
      [] o.family = "lambda" ->
            <<"(">>
            \o Join([i \in 1..Len(o.parts) |-> RenderParam(o.parts[i])], <<",", " ">>)
            \o <<")", " ", "-", ">", " ">> \o o.body
      [] o.family = "higher" ->
            <<"(", "f", ":", " ", "(">> \o RenderParam(o.parts[1])
            \o <<")", " ", "-", ">", " ">> \o o.body
            \o <<")", " ", "-", ">", " ", "f">>
      [] o.family = "group" -> <<"(">> \o o.parts[1] \o <<")">>
      [] o.family = "pipeline" -> Join(o.parts, <<" ", "|", ">", " ">>)
      [] o.family = "let" ->
            <<"l", "e", "t", " ">>
            \o Join([i \in 1..Len(o.parts) |-> RenderBinding(o.parts[i])], <<",", " ">>)
            \o <<" ", "i", "n", " ">> \o o.body
      [] o.family = "template" ->
            <<"\"", "\"", "\"">>
            \o Concat([i \in 1..Len(o.parts) |-> RenderPiece(o.parts[i])])
            \o <<"\"", "\"", "\"">>

None == [kind |-> "none"]

(***************************************************************************)
(* The parser as a state machine: construct a Parser on a source text,     *)
(* then call parse().                                                      *)
(***************************************************************************)
InitParser ==
    /\ \/ origin \in FreeOrigins
       \/ origin \in PipelineOrigins
       \/ origin \in LetOrigins
       \/ origin \in TemplateOrigins
       \/ origin \in LambdaOrigins
       \/ origin \in HigherOrderOrigins
       \/ origin \in GroupOrigins
    /\ input = Render(origin)
    /\ lexer = LexerInit
    /\ current = Absent
    /\ pc = "new"
    /\ result = None
    /\ errors = <<>>
    /\ history = <<>>

\* const parser = new Parser(input)
Construct ==
    /\ pc = "new"
    /\ \E r \in {Parser_new(input)} :
           /\ lexer' = r.ps.lx
           /\ current' = r.ps.cur
           /\ result' = IF r.ok THEN None ELSE [ok |-> FALSE, err |-> r.err]
           /\ pc' = IF r.ok THEN "ready" ELSE "threw"
    /\ UNCHANGED <<input, origin, errors, history>>

\* parser.parse()
Parse ==
    /\ pc = "ready"
    /\ \E r \in {parseExpression(Lexer_new(input), [lx |-> lexer, cur |-> current])} :
           /\ lexer' = r.ps.lx
           /\ current' = r.ps.cur
           /\ result' = IF r.ok THEN [ok |-> TRUE, val |-> r.val]
                        ELSE [ok |-> FALSE, err |-> r.err]
           /\ pc' = IF r.ok THEN "parsed" ELSE "threw"
    /\ UNCHANGED <<input, origin, errors, history>>

\* const checker = new TypeChecker(); checker.check(ast); checker.getErrors()
TypeCheck ==
    /\ pc = "parsed"
    /\ \E r \in {check(result.val, 1, TypeChecker_new)} :
           /\ result' = [ok |-> TRUE, val |-> result.val, type |-> r.type]
           /\ errors' = getErrors(r.st)
           /\ pc' = IF r.threw THEN "checkthrew" ELSE "checked"
    /\ UNCHANGED <<input, origin, lexer, current, history>>

NextParser == Construct \/ Parse \/ TypeCheck

SpecParser == InitParser /\ [][NextParser]_vars

\* an AST without its source locations
RECURSIVE StripLoc(_)
StripLoc(n) ==
    CASE n.kind = "literal" -> [kind |-> "literal", value |-> n.value]
      [] n.kind = "identifier" -> [kind |-> "identifier", name |-> n.name]
      [] n.kind = "application" ->
            [kind |-> "application", func |-> StripLoc(n.func),
             args |-> [i \in 1..Len(n.args) |-> StripLoc(n.args[i])]]
      [] n.kind = "pipeline" ->
            [kind |-> "pipeline",
             stages |-> [i \in 1..Len(n.stages) |-> StripLoc(n.stages[i])]]
      [] n.kind = "lambda" ->
            [kind |-> "lambda", params |-> n.params, body |-> StripLoc(n.body)]
      [] n.kind = "let" ->
            [kind |-> "let",
             bindings |-> [i \in 1..Len(n.bindings) |->
                              [name |-> n.bindings[i].name,
                               value |-> StripLoc(n.bindings[i].value)]],
             body |-> StripLoc(n.body)]
      [] n.kind = "template" ->
            [kind |-> "template",
             parts |-> [i \in 1..Len(n.parts) |->
                           IF n.parts[i].kind = "interpolation"
                           THEN [kind |-> "interpolation",
                                 expression |-> StripLoc(n.parts[i].expression)]
                           ELSE n.parts[i]]]
      [] OTHER -> n

\* parse() has returned
Returned == pc \in {"parsed", "checked", "checkthrew"}

\* parse() has returned or thrown
Finished == Returned \/ pc = "threw"

(***************************************************************************)
(* C1.  A source e1 |> e2 |> ... |> en (n >= 2, no parentheses) parses to  *)
(* exactly one pipeline node whose stages are e1, ..., en in source order, *)
(* and no stage is itself a pipeline node.                                 *)
(***************************************************************************)
C1_PipelineFlattened ==
    (origin.family = "pipeline" /\ Finished) =>
        /\ Returned
        /\ current.type = TokenType["EOF"]
        /\ result.val.kind = "pipeline"
        /\ Len(result.val.stages) = Len(origin.parts)
        /\ \A i \in 1..Len(origin.parts) :
              /\ result.val.stages[i].kind # "pipeline"
              /\ StripLoc(result.val.stages[i])
                    = StripLoc(Parser_parse(origin.parts[i]).val)

C1_ThreeStages ==
    /\ origin.family = "pipeline"
    /\ Len(origin.parts) = 3
    /\ pc = "parsed"
    /\ result.val.kind = "pipeline"
    /\ Len(result.val.stages) = 3
    /\ result.val.stages[1].kind = "literal"
    /\ result.val.stages[2].kind = "identifier"
    /\ result.val.stages[3].kind = "application"

(***************************************************************************)
(* C2.  parse() returns an AST only when the whole source is one complete  *)
(* expression: when it returns, no token is left over before EOF.          *)
(***************************************************************************)
C2_NoTokensLeftOver == Returned => current.type = TokenType["EOF"]

(***************************************************************************)
(* C3.  A let whose binding values are literals and whose body is one of   *)
(* the bound names (as `let name = "Alice", age = 30 in name`) lexes,      *)
(* parses and type-checks to that binding's literal type with no recorded  *)
(* diagnostics.                                                            *)
(***************************************************************************)
LiteralTypeOf(text) ==
    IF text[1] = "\"" THEN PrimitiveType("string")
    ELSE IF isDigit(text[1]) THEN PrimitiveType("number")
    ELSE PrimitiveType("boolean")

C3_LetOfLiterals ==
    (origin.family = "let" /\ Finished) =>
        /\ pc # "threw"
        /\ pc = "checked" =>
              /\ errors = <<>>
              /\ \E i \in 1..Len(origin.parts) :
                    /\ origin.parts[i].name = origin.body
                    /\ result.type = LiteralTypeOf(origin.parts[i].value)

C12_LambdaForms ==
    /\ (origin.family = "lambda" /\ Finished) =>
          /\ Returned
          /\ result.val.kind = "lambda"
          /\ Len(result.val.params) = Len(origin.parts)
          /\ \A i \in 1..Len(origin.parts) :
                result.val.params[i].name = origin.parts[i].name
          /\ StripLoc(result.val.body) = StripLoc(Parser_parse(origin.body).val)
    /\ (origin.family = "group" /\ Finished) =>
          /\ Returned
          /\ StripLoc(result.val) = StripLoc(Parser_parse(origin.parts[1]).val)

\* the forms with at least one parameter, and the groups, do parse so
LambdaFormsWithParams ==
    /\ (origin.family = "lambda" /\ Len(origin.parts) > 0 /\ Finished) =>
          /\ Returned
          /\ current.type = TokenType["EOF"]
          /\ result.val.kind = "lambda"
          /\ Len(result.val.params) = Len(origin.parts)
          /\ \A i \in 1..Len(origin.parts) :
                result.val.params[i].name = origin.parts[i].name
          /\ StripLoc(result.val.body) = StripLoc(Parser_parse(origin.body).val)
    /\ (origin.family = "group" /\ Finished) =>
          /\ Returned
          /\ StripLoc(result.val) = StripLoc(Parser_parse(origin.parts[1]).val)

\* () -> e throws out of parseLambda
EmptyParamsThrow ==
    (origin.family = "lambda" /\ Len(origin.parts) = 0 /\ Finished) =>
        /\ pc = "threw"
        /\ result.err.what = "Expected parameter name"

(***************************************************************************)
(* C13.  Type-checking a parsed lambda yields a function type with one     *)
(* parameter per declared parameter, typed by its annotation, or dynamic   *)
(* when it has none, and returning the type the body has in a child scope  *)
(* of the global one that holds the parameters; (x: string) -> x yields    *)
(* the function type from x: string to string with no diagnostics.         *)
(***************************************************************************)
AnnotationType(text) ==
    IF text = <<>> THEN [kind |-> "dynamic", constraint |-> Absent]
    ELSE IF text[1] = "s" THEN PrimitiveType("string")
    ELSE PrimitiveType("number")

DeclaredParams(parts) ==
    [i \in 1..Len(parts) |->
        [name |-> parts[i].name, type |-> AnnotationType(parts[i].type),
         optional |-> FALSE]]

\* a checker whose environment 2 is a child of the global one holding params
ChildScope(params) ==
    [envs |-> <<globalEnv, [bindings |-> SetAll(<<>>, params), parent |-> 1]>>,
     errors |-> <<>>]

C13_LambdaFunctionType ==
    (origin.family = "lambda" /\ Len(origin.parts) > 0 /\ Finished
        /\ pc # "parsed") =>
        /\ pc = "checked"
        /\ result.type.kind = "function"
        /\ result.type.params = DeclaredParams(origin.parts)
        /\ result.type.returns
              = check(Parser_parse(origin.body).val, 2,
                      ChildScope(DeclaredParams(origin.parts))).type
        /\ input = <<"(", "x", ":", " ", "s", "t", "r", "i", "n", "g", ")", " ",
                     "-", ">", " ", "x">> =>
              /\ result.type.params
                    = <<[name |-> <<"x">>, type |-> PrimitiveType("string"),
                         optional |-> FALSE]>>
              /\ result.type.returns = PrimitiveType("string")
              /\ errors = <<>>

\* (x: string, y) -> y has been checked: the second parameter and the result
\* are dynamic
C13_AnnotatedAndBare ==
    /\ input = <<"(", "x", ":", " ", "s", "t", "r", "i", "n", "g", ",", " ", "y", ")",
                 " ", "-", ">", " ", "y">>
    /\ pc = "checked"
    /\ Len(result.type.params) = 2
    /\ result.type.params[1].type = PrimitiveType("string")
    /\ result.type.params[2].type.kind = "dynamic"
    /\ result.type.returns.kind = "dynamic"
    /\ errors = <<>>

(***************************************************************************)
(* The type checker as a state machine: one TypeChecker, check() called on *)
(* hand-built ASTs.  The environments a call allocates are unreachable     *)
(* once it returns, so a call starts from the global environment and the   *)
(* errors recorded so far; current keeps the environments as the call left *)
(* them, the global one first.                                             *)
(***************************************************************************)
Loc0 == [line |-> 1, column |-> 1]

Literal(value) == [kind |-> "literal", value |-> value, location |-> Loc0]

Identifier(name) == [kind |-> "identifier", name |-> name, location |-> Loc0]

Parameter(name, type) == [name |-> name, type |-> type, defaultValue |-> Absent]

Lambda(params, body) ==
    [kind |-> "lambda", params |-> params, body |-> body, returnType |-> Absent,
     location |-> Loc0]

Application(func, args) ==
    [kind |-> "application", func |-> func, args |-> args, location |-> Loc0]

Binding(name, value, type) == [name |-> name, value |-> value, type |-> type]

Let(bindings, body) ==
    [kind |-> "let", bindings |-> bindings, body |-> body, location |-> Loc0]

Template(parts) == [kind |-> "template", parts |-> parts, location |-> Loc0]

Pipeline(stages) == [kind |-> "pipeline", stages |-> stages, location |-> Loc0]

TypeAnnotation(expression, type) ==
    [kind |-> "type_annotation", expression |-> expression, type |-> type,
     location |-> Loc0]

LitS == Literal(JsString(<<"s">>))

LitN == Literal(JsNumber([m |-> 1, e |-> 0]))

IdX == Identifier(<<"x">>)

IdY == Identifier(<<"y">>)

\* (x: number) -> x,  () -> 1,  x -> "s"
Lambdas ==
    {Lambda(<<Parameter(<<"x">>, PrimitiveType("number"))>>, IdX),
     Lambda(<<>>, LitN),
     Lambda(<<Parameter(<<"x">>, Absent)>>, LitS)}

\* (x: number, y: number) -> x
TwoNumbers ==
    Lambda(<<Parameter(<<"x">>, PrimitiveType("number")),
             Parameter(<<"y">>, PrimitiveType("number"))>>, IdX)

\* a lambda whose one parameter has a default value
WithDefault ==
    Lambda(<<[name |-> <<"x">>, type |-> PrimitiveType("number"), defaultValue |-> LitN]>>,
           LitS)

Applications ==
    {Application(f, a) :
        f \in {Lambda(<<Parameter(<<"x">>, PrimitiveType("number"))>>, IdX), LitN},
        a \in {<<>>, <<LitN>>, <<LitS>>, <<LitS, IdY>>}}
    \cup {Application(TwoNumbers, <<LitS, LitS>>),
          Application(TwoNumbers, <<LitN, LitS, LitN>>),
          Application(WithDefault, <<>>),
          Application(IdY, <<IdX>>)}

Lets ==
    {Let(<<Binding(<<"x">>, v, t)>>, b) :
        v \in {LitS, LitN}, t \in {Absent, PrimitiveType("number")}, b \in {IdX, IdY}}
    \cup {Let(<<Binding(<<"x">>, LitN, Absent), Binding(<<"y">>, IdX, Absent)>>, IdY),
          Let(<<Binding(<<"x">>, LitN, Absent), Binding(<<"y">>, LitS, Absent)>>, IdX),
          Let(<<Binding(Word["string"], LitN, Absent),
                Binding(<<"y">>, Identifier(Word["string"]), Absent)>>, IdY),
          Let(<<Binding(<<"f">>, Lambda(<<Parameter(<<"x">>, PrimitiveType("number"))>>,
                                        IdX), Absent)>>,
              Application(Identifier(<<"f">>), <<LitS>>))}

Pipelines ==
    {Pipeline(<<a>>) : a \in {LitS, IdY}}
    \cup {Pipeline(<<a, b>>) : a \in {LitS, LitN}, b \in Lambdas \cup {LitN}}
    \cup {Pipeline(<<LitS, Lambda(<<>>, LitN),
                     Lambda(<<Parameter(<<"x">>, PrimitiveType("number"))>>, IdX)>>),
          Pipeline(<<LitS, LitN,
                     Lambda(<<Parameter(<<"x">>, PrimitiveType("number"))>>, IdX)>>)}

Templates ==
    {Template(<<>>),
     Template(<<[kind |-> "text", value |-> <<"H", "i">>],
                [kind |-> "interpolation", expression |-> IdY]>>),
     Template(<<[kind |-> "interpolation", expression |-> Application(LitN, <<>>)]>>)}

TypeAnnotations ==
    {TypeAnnotation(e, PrimitiveType("number")) : e \in {LitS, LitN, IdY}}

\* let x = 1 in ((x: string) -> x)(x)
ShadowedByParameter ==
    Let(<<Binding(<<"x">>, LitN, Absent)>>,
        Application(Lambda(<<Parameter(<<"x">>, PrimitiveType("string"))>>, IdX),
                    <<IdX>>))

\* let x = 1, y = (let x = "s" in x) in x
ShadowedByLet ==
    Let(<<Binding(<<"x">>, LitN, Absent),
          Binding(<<"y">>, Let(<<Binding(<<"x">>, LitS, Absent)>>, IdX), Absent)>>,
        IdX)

\* ASTs built from the eight node kinds, every pipeline with a first stage
Asts ==
    {LitS, LitN, Literal([t |-> "null"]), IdX, Identifier(Word["string"])}
    \cup Lambdas \cup Applications \cup Lets \cup Pipelines \cup Templates
    \cup TypeAnnotations \cup {ShadowedByParameter, ShadowedByLet}

InitChecker ==
    /\ input = <<>>
    /\ origin = None
    /\ lexer = LexerInit
    /\ current = Absent
    /\ pc = "checker"
    /\ result = None
    /\ errors = getErrors(TypeChecker_new)
    /\ history = <<>>

\* checker.check(node); checker.getErrors().  origin keeps the node checked.
Check(node) ==
    /\ pc = "checker"
    /\ Len(history) < MaxChecks
    /\ \E r \in {check(node, 1, [TypeChecker_new EXCEPT !.errors = errors])} :
           /\ result' = [threw |-> r.threw, type |-> r.type]
           /\ errors' = getErrors(r.st)
           /\ current' = r.st.envs
           /\ pc' = IF r.threw THEN "checkthrew" ELSE "checker"
    /\ history' = Append(history, node.kind)
    /\ origin' = node
    /\ UNCHANGED <<input, lexer>>

NextChecker == \E node \in Asts : Check(node)

SpecChecker == InitChecker /\ [][NextChecker]_vars

IsPrefix(s, t) == Len(s) <= Len(t) /\ \A i \in 1..Len(s) : s[i] = t[i]

NewErrors == SubSeq(errors', Len(errors) + 1, Len(errors'))

\* check(node) on a checker that has recorded nothing yet
Alone(node) == check(node, 1, TypeChecker_new)

\* a step that is a call of check() on a node of the given kind
Checks(kind) == history' # history /\ origin'.kind = kind

(***************************************************************************)
(* C14.  In a let, each binding's value is checked in the enclosing        *)
(* environment only, so that a reference to an earlier sibling binding     *)
(* that is not defined outside the let is recorded as an undefined         *)
(* identifier; the body is checked in one new child environment that       *)
(* holds all the bindings.                                                 *)
(***************************************************************************)
LetBindingType(node, i) ==
    IF node.bindings[i].type # Absent THEN node.bindings[i].type
    ELSE Alone(node.bindings[i].value).type

\* what binding i adds to the diagnostics when its value is checked outside
LetBindingErrors(node, i) ==
    getErrors(Alone(node.bindings[i].value).st)
    \o IF isSubtype(Alone(node.bindings[i].value).type, LetBindingType(node, i))
       THEN <<>>
       ELSE <<[message |-> [what |-> "Type mismatch in binding",
                            name |-> node.bindings[i].name,
                            expected |-> LetBindingType(node, i),
                            got |-> Alone(node.bindings[i].value).type],
               location |-> node.location]>>

\* the body checked in a child of the global environment with all bindings
LetBody(node) ==
    check(node.body, 2,
          ChildScope([i \in 1..Len(node.bindings) |->
                         [name |-> node.bindings[i].name,
                          type |-> LetBindingType(node, i)]]))

C14_LetScoping ==
    [][Checks("let") =>
          /\ result'.type = LetBody(origin').type
          /\ NewErrors
                = Concat([i \in 1..Len(origin'.bindings) |-> LetBindingErrors(origin', i)])
                  \o getErrors(LetBody(origin').st)
          /\ \A i, j \in 1..Len(origin'.bindings) :
                (/\ j < i
                 /\ origin'.bindings[i].value = Identifier(origin'.bindings[j].name)
                 /\ MapGet(globalEnv.bindings, origin'.bindings[j].name) = Absent) =>
                    \E k \in 1..Len(NewErrors) :
                        NewErrors[k].message
                            = [what |-> "Undefined identifier",
                               name |-> origin'.bindings[j].name]]_vars

\* let x = 1, y = x in y has been checked: x is undefined where y's value is
\* checked, and the body's y is bound
C14_SiblingUndefined ==
    /\ pc = "checker"
    /\ origin = Let(<<Binding(<<"x">>, LitN, Absent), Binding(<<"y">>, IdX, Absent)>>, IdY)
    /\ Len(history) = 1
    /\ result.type = [kind |-> "any"]
    /\ Len(errors) = 1
    /\ errors[1].message = [what |-> "Undefined identifier", name |-> <<"x">>]

\* the messages of a list of diagnostics
Whats(errs) == [i \in 1..Len(errs) |-> errs[i].message.what]

\* The current type and the diagnostics after the stages from i on, the
\* stages typed on their own.  zeroParamsGiveAny says what a function stage
\* without parameters leaves as current type: any, or its return type.
RECURSIVE PipelineFold(_, _, _, _, _)
PipelineFold(node, i, currentType, whats, zeroParamsGiveAny) ==
    IF i > Len(node.stages) THEN [type |-> currentType, whats |-> whats]
    ELSE LET stage == Alone(node.stages[i])
             own == whats \o Whats(getErrors(stage.st))
         IN  IF stage.type.kind # "function"
             THEN PipelineFold(node, i + 1, [kind |-> "any"],
                               Append(own, "Pipeline stage is not a function"),
                               zeroParamsGiveAny)
             ELSE IF Len(stage.type.params) = 0
             THEN PipelineFold(node, i + 1,
                               IF zeroParamsGiveAny THEN [kind |-> "any"]
                               ELSE stage.type.returns,
                               Append(own, "Pipeline stage expects no arguments"),
                               zeroParamsGiveAny)
             ELSE PipelineFold(node, i + 1, stage.type.returns,
                               IF isSubtype(currentType, stage.type.params[1].type)
                               THEN own
                               ELSE Append(own, "Type mismatch in pipeline stage"),
                               zeroParamsGiveAny)

PipelineExpected(node, zeroParamsGiveAny) ==
    PipelineFold(node, 2, Alone(node.stages[1]).type,
                 Whats(getErrors(Alone(node.stages[1]).st)), zeroParamsGiveAny)

(***************************************************************************)
(* C15 as the specification states it.  In a pipeline, a stage that does   *)
(* not type to a function, or that types to a function with zero           *)
(* parameters, records a diagnostic and makes the current type any for     *)
(* the remainder; for every other stage the current type becomes the       *)
(* function's return type after isSubtype(current, first parameter type)   *)
(* is checked.                                                             *)
(***************************************************************************)
C15_ZeroParamsGiveAny ==
    [][Checks("pipeline") =>
          /\ result'.type = PipelineExpected(origin', TRUE).type
          /\ Whats(NewErrors) = PipelineExpected(origin', TRUE).whats]_vars

(***************************************************************************)
(* C15 as the code has it.  A stage that does not type to a function       *)
(* records a diagnostic and makes the current type any; a stage that types *)
(* to a function with zero parameters records a diagnostic and makes the   *)
(* current type that function's return type; for every other stage the     *)
(* current type becomes the function's return type after                   *)
(* isSubtype(current, first parameter type) is checked, a failed check     *)
(* recording one diagnostic.                                               *)
(***************************************************************************)
C15_ZeroParamsGiveReturnType ==
    [][Checks("pipeline") =>
          /\ result'.type = PipelineExpected(origin', FALSE).type
          /\ Whats(NewErrors) = PipelineExpected(origin', FALSE).whats]_vars

\* "s" |> (() -> 1) has been checked: one diagnostic, and the type is number
C15_AfterZeroParamStage ==
    /\ pc = "checker"
    /\ origin = Pipeline(<<LitS, Lambda(<<>>, LitN)>>)
    /\ Len(history) = 1
    /\ Whats(errors) = <<"Pipeline stage expects no arguments">>
    /\ result.type = PrimitiveType("number")

(***************************************************************************)
(* C16.  An application whose callee types to a function returns that      *)
(* function's declared return type whatever diagnostics it records: one    *)
(* if there are fewer arguments than non-optional parameters, one if there *)
(* are more arguments than parameters, and one for each positional         *)
(* argument that is not a subtype of its parameter.  A callee that does    *)
(* not type to a function records one diagnostic and yields any.           *)
(***************************************************************************)
\* the diagnostics of the callee and of the arguments themselves
CalleeWhats(node) == Whats(getErrors(Alone(node.func).st))

ArgumentWhats(node) ==
    Concat([i \in 1..Len(node.args) |-> Whats(getErrors(Alone(node.args[i]).st))])

Repeat(what, n) == [i \in 1..n |-> what]

ApplicationWhats(node, params) ==
    (IF Len(node.args) < Cardinality({i \in 1..Len(params) : ~params[i].optional})
     THEN <<"Too few arguments">> ELSE <<>>)
    \o (IF Len(node.args) > Len(params) THEN <<"Too many arguments">> ELSE <<>>)
    \o Repeat("Type mismatch in argument",
               Cardinality({i \in 1..Min(Len(node.args), Len(params)) :
                               ~isSubtype(Alone(node.args[i]).type, params[i].type)}))

C16_ApplicationType ==
    [][Checks("application") =>
          IF Alone(origin'.func).type.kind = "function"
          THEN /\ result'.type = Alone(origin'.func).type.returns
               /\ Whats(NewErrors)
                     = CalleeWhats(origin') \o ArgumentWhats(origin')
                       \o ApplicationWhats(origin', Alone(origin'.func).type.params)
          ELSE /\ result'.type = [kind |-> "any"]
               /\ Whats(NewErrors)
                     = CalleeWhats(origin') \o <<"Cannot apply non-function type">>]_vars

\* ((x: number, y: number) -> x) 1 "s" 1 has been checked: one argument too
\* many, one mismatch, and the declared return type
C16_TooManyAndMismatch ==
    /\ pc = "checker"
    /\ origin = Application(TwoNumbers, <<LitN, LitS, LitN>>)
    /\ Len(history) = 1
    /\ Whats(errors) = <<"Too many arguments", "Type mismatch in argument">>
    /\ result.type = PrimitiveType("number")

(***************************************************************************)
(* The lexer as a state machine: a Lexer on a source text whose            *)
(* nextToken() is called again and again, or a Parser on it whose          *)
(* advance() is.  history counts the calls made at the end of input.       *)
(***************************************************************************)
\* texts of a few lexemes, with and without trailing white space
LexerOrigins ==
    {[family |-> "free", parts |-> p] :
        p \in SeqsUpTo({<<"a">>, <<"\"", "s", "\"">>, <<"1">>, <<"|", ">">>, <<"(">>,
                        <<"=">>, <<"\n">>, <<"#", "c">>}, MaxToks)}

\* texts that open a parenthesis: what a parameter list or a group starts with
LookaheadOrigins ==
    {[family |-> "free", parts |-> <<<<"(">>>> \o p] :
        p \in SeqsUpTo({<<"a">>, <<")">>, <<"-", ">">>, <<":">>, <<",">>, <<"=">>},
                       MaxToks)}

InitLexer ==
    /\ origin \in LexerOrigins \cup LookaheadOrigins
    /\ input = Render(origin)
    /\ lexer = LexerInit
    /\ current = Absent
    /\ pc = "new"
    /\ result = None
    /\ errors = <<>>
    /\ history = [eof |-> FALSE, after |-> 0, lookaheads |-> 0]

\* const lexer = new Lexer(input)
LexerNew ==
    /\ pc = "new"
    /\ pc' = "lexing"
    /\ UNCHANGED <<input, origin, lexer, current, result, errors, history>>

\* lexer.nextToken()
NextToken ==
    /\ pc = "lexing"
    /\ history.after < MaxCalls
    /\ LET r == nextToken(input, lexer)
       IN  /\ lexer' = r.lx
           /\ result' = IF r.ok THEN [ok |-> TRUE, val |-> r.tok]
                        ELSE [ok |-> FALSE, err |-> r.err]
           /\ pc' = IF r.ok THEN "lexing" ELSE "threw"
           /\ history' = [eof |-> history.eof \/ (r.ok /\ r.tok.type = TokenType["EOF"]),
                          after |-> IF history.eof THEN history.after + 1
                                    ELSE history.after,
                          lookaheads |-> history.lookaheads]
    /\ UNCHANGED <<input, origin, current, errors>>

\* parser.advance()
Advance ==
    /\ pc = "ready"
    /\ history.after < MaxCalls
    /\ LET r == Parser_advance(Lexer_new(input), [lx |-> lexer, cur |-> current])
       IN  /\ lexer' = r.ps.lx
           /\ current' = r.ps.cur
           /\ result' = IF r.ok THEN [ok |-> TRUE, val |-> r.val]
                        ELSE [ok |-> FALSE, err |-> r.err]
           /\ pc' = IF r.ok THEN "ready" ELSE "threw"
    /\ history' = [eof |-> current.type = TokenType["EOF"],
                   after |-> IF current.type = TokenType["EOF"]
                             THEN history.after + 1 ELSE history.after,
                   lookaheads |-> history.lookaheads]
    /\ UNCHANGED <<input, origin, errors>>

\* parser.isLambdaExpression(), wherever the parser stands
Lookahead ==
    /\ pc = "ready"
    /\ history.lookaheads < MaxCalls
    /\ \E r \in {isLambdaExpression(Lexer_new(input), [lx |-> lexer, cur |-> current])} :
           /\ lexer' = r.ps.lx
           /\ current' = r.ps.cur
           /\ result' = IF r.ok THEN [ok |-> TRUE, val |-> r.val]
                        ELSE [ok |-> FALSE, err |-> r.err]
           /\ pc' = IF r.ok THEN "ready" ELSE "threw"
    /\ history' = [history EXCEPT !.lookaheads = @ + 1]
    /\ UNCHANGED <<input, origin, errors>>

NextLexer == LexerNew \/ NextToken \/ Construct \/ Advance \/ Lookahead

SpecLexer == InitLexer /\ [][NextLexer]_vars

(***************************************************************************)
(* C9.  Once nextToken() has returned an EOF token, every later call on    *)
(* the same lexer returns an EOF token, without throwing and without       *)
(* moving the cursor; and the parser's advance at EOF leaves its current   *)
(* token EOF.                                                              *)
(***************************************************************************)
C9_EofIsTerminal ==
    /\ [][(pc = "lexing" /\ history.eof) =>
             /\ pc' = "lexing"
             /\ result'.ok
             /\ result'.val.type = TokenType["EOF"]
             /\ lexer' = lexer]_vars
    /\ [][(pc = "ready" /\ current.type = TokenType["EOF"]) =>
             /\ pc' = "ready"
             /\ current'.type = TokenType["EOF"]
             /\ lexer' = lexer]_vars

C9_CalledAgainAtEof ==
    /\ pc = "lexing"
    /\ history.eof
    /\ history.after = 2
    /\ Len(input) > 0
    /\ lexer.position = Len(input)
    /\ result.val.type = TokenType["EOF"]

(***************************************************************************)
(* C11.  isLambdaExpression leaves the parser exactly as it found it on    *)
(* every path, a return of true, a return of false or a throw out of the   *)
(* lexer: the lexer's position, line and column and the buffered current   *)
(* token are what they were before the lookahead.                          *)
(***************************************************************************)
C11_LookaheadRestores ==
    [][history'.lookaheads # history.lookaheads =>
          /\ lexer'.position = lexer.position
          /\ lexer'.line = lexer.line
          /\ lexer'.column = lexer.column
          /\ current' = current]_vars

\* ( a ) -> : the lookahead read three tokens past the parenthesis, said yes,
\* and the cursor is back behind the parenthesis
C11_LookedPastThreeTokens ==
    /\ input = <<"(", " ", "a", " ", ")", " ", "-", ">">>
    /\ pc = "ready"
    /\ history.lookaheads = 1
    /\ result = [ok |-> TRUE, val |-> TRUE]
    /\ current.type = TokenType["LPAREN"]
    /\ lexer.position = 1

(***************************************************************************)
(* Schemas, values and texts for Schema.validate and Schema.parse.         *)
(***************************************************************************)
SchemaField(name, type, required, validation, default) ==
    [name |-> name, type |-> type, required |-> required, validation |-> validation,
     default |-> default]

AgeName == <<"a", "g", "e">>

NameName == <<"n", "a", "m", "e">>

ActiveName == <<"a", "c", "t", "i", "v", "e">>

\* required age: number
AgeSchema ==
    [name |-> "Age",
     fields |-> <<SchemaField(AgeName, PrimitiveType("number"), TRUE, Absent,
                              JsUndefined)>>]

\* required name: string; required age: number, at least 18
PersonSchema ==
    [name |-> "Person",
     fields |-> <<SchemaField(NameName, PrimitiveType("string"), TRUE, Absent,
                              JsUndefined),
                  SchemaField(AgeName, PrimitiveType("number"), TRUE,
                              Predicate("adult"),
                              JsUndefined)>>]

\* required name: string; age: number; required active: boolean, true by default
ProfileSchema ==
    [name |-> "Profile",
     fields |-> <<SchemaField(NameName, PrimitiveType("string"), TRUE, Absent,
                              JsUndefined),
                  SchemaField(AgeName, PrimitiveType("number"), FALSE, Absent,
                              JsUndefined),
                  SchemaField(ActiveName, PrimitiveType("boolean"), TRUE, Absent,
                              JsBoolean(TRUE))>>]

\* required age: number, at least 18, 7 by default
GuestSchema ==
    [name |-> "Guest",
     fields |-> <<SchemaField(AgeName, PrimitiveType("number"), TRUE,
                              Predicate("adult"), JsNumber(7))>>]

Schemas == {AgeSchema, PersonSchema, ProfileSchema, GuestSchema}

Thirty == JsNumber(30)

Seven == JsNumber(7)

SampleValues ==
    {Thirty, Seven, JsString(<<"3", "0">>), JsString(<<"a", "b", "c">>), JsNull}

SampleObjects ==
    {JsObject(e) :
        e \in {q \in SeqsUpTo([key : {AgeName, <<"A", "G", "E">>, NameName},
                               value : SampleValues], MaxKeys) :
                 \A i, j \in 1..Len(q) : i # j => q[i].key # q[j].key}}

JsonValues ==
    SampleObjects
    \cup {JsNull, Thirty, JsString(<<"a", "b", "c">>), JsBoolean(TRUE), JsArray(<<>>),
          JsArray(<<Thirty>>)}

InputValues ==
    JsonValues \cup {JsUndefined, JsObject(<<[key |-> AgeName, value |-> JsUndefined]>>)}

\* JSON.stringify(value)
RECURSIVE Stringify(_)
Stringify(value) ==
    CASE value.t = "number" -> NumText(value.v)
      [] value.t = "string" -> <<"\"">> \o value.v \o <<"\"">>
      [] value.t = "boolean" -> String(value).v
      [] value.t = "null" -> String(value).v
      [] value.t = "array" ->
            <<"[">> \o Join([i \in 1..Len(value.items) |-> Stringify(value.items[i])],
                            <<",">>) \o <<"]">>
      [] value.t = "object" ->
            <<"{">>
            \o Join([i \in 1..Len(value.entries) |->
                        <<"\"">> \o value.entries[i].key \o <<"\"", ":">>
                        \o Stringify(value.entries[i].value)], <<",">>)
            \o <<"}">>

UpperChar(c) ==
    CASE c = "a" -> "A" [] c = "c" -> "C" [] c = "e" -> "E" [] c = "g" -> "G"
      [] c = "i" -> "I" [] c = "m" -> "M" [] c = "n" -> "N" [] c = "t" -> "T"
      [] c = "v" -> "V" [] OTHER -> c

\* a field name in another letter case
Variant(name, how) ==
    CASE how = "upper" -> [i \in 1..Len(name) |-> UpperChar(name[i])]
      [] how = "capital" -> <<UpperChar(name[1])>> \o Tail(name)
      [] OTHER -> name

Samples(type) ==
    CASE type.name = "number" -> {Thirty, Seven}
      [] type.name = "string" -> {JsString(<<"a", "b", "c">>), JsString(<<"3", "0">>)}
      [] type.name = "boolean" -> {JsBoolean(TRUE), JsBoolean(FALSE)}

\* how a field shows in a disguised object: not at all, or with a value of
\* its type, its name in some letter case, a number possibly as a string
FieldChoices(field) ==
    {[present |-> FALSE]}
    \cup {[present |-> TRUE, value |-> v, how |-> h, quoted |-> q] :
            v \in Samples(field.type), h \in {"same", "upper", "capital"},
            q \in {b \in BOOLEAN : b => field.type.name = "number"}}

RECURSIVE ChoiceSeqs(_)
ChoiceSeqs(fields) ==
    IF fields = <<>> THEN {<<>>}
    ELSE {<<c>> \o rest : c \in FieldChoices(fields[1]), rest \in ChoiceSeqs(Tail(fields))}

RECURSIVE BaseEntries(_, _)
BaseEntries(fields, choices) ==
    IF fields = <<>> THEN <<>>
    ELSE (IF choices[1].present
          THEN <<[key |-> fields[1].name, value |-> choices[1].value]>> ELSE <<>>)
         \o BaseEntries(Tail(fields), Tail(choices))

RECURSIVE DisguisedEntries(_, _)
DisguisedEntries(fields, choices) ==
    IF fields = <<>> THEN <<>>
    ELSE (IF choices[1].present
          THEN <<[key |-> Variant(fields[1].name, choices[1].how),
                  value |-> IF choices[1].quoted THEN String(choices[1].value)
                            ELSE choices[1].value]>>
          ELSE <<>>)
         \o DisguisedEntries(Tail(fields), Tail(choices))

ValueOrigins == {[family |-> "value", schema |-> s, value |-> v] :
                    s \in Schemas, v \in InputValues}

DocOrigins == {[family |-> "doc", schema |-> s, value |-> v] :
                  s \in Schemas, v \in JsonValues}

\* objects valid but for the letter case of names and numbers held as strings
DisguisedOrigins ==
    {[family |-> "disguised", schema |-> sc[1],
      base |-> JsObject(BaseEntries(sc[1].fields, sc[2])),
      value |-> JsObject(DisguisedEntries(sc[1].fields, sc[2]))] :
        sc \in {q \in UNION {{s} \X ChoiceSeqs(s.fields) : s \in Schemas} :
                  validate(q[1], JsObject(BaseEntries(q[1].fields, q[2]))).valid}}

JsonTag == <<"j", "s", "o", "n">>

AgeDoc == Stringify(JsObject(<<[key |-> AgeName, value |-> Thirty]>>))

FencedBodies ==
    {AgeDoc,
     Stringify(JsObject(<<[key |-> AgeName, value |-> JsString(<<"3", "0">>)]>>)),
     Stringify(JsObject(<<[key |-> <<"A", "G", "E">>, value |-> Seven]>>)),
     Stringify(JsObject(<<>>)),
     <<"x">>,
     <<>>}

\* prefix, fence, tag, white space, body, white space, fence, suffix
FencedOrigins ==
    {[family |-> "fenced", schema |-> s, prefix |-> p, tag |-> t, lead |-> l,
      body |-> b, trail |-> r, suffix |-> x] :
        s \in Schemas, p \in {<<>>, <<"x", "\n">>}, t \in {<<>>, JsonTag},
        l \in {<<>>, <<"\n">>}, b \in FencedBodies, r \in {<<>>, <<"\n">>},
        x \in {<<>>, <<"x">>, Fence, <<" ">> \o Fence \o AgeDoc \o Fence}}

PieceOrigins ==
    {[family |-> "pieces", schema |-> s, parts |-> p] :
        s \in Schemas,
        p \in SeqsUpTo({Fence, <<Backquote>>, JsonTag, <<"\n">>, AgeDoc, <<"x">>},
                       MaxPieces)}

SchemaText(o) ==
    CASE o.family = "value" -> <<>>
      [] o.family \in {"doc", "disguised"} -> Stringify(o.value)
      [] o.family = "fenced" ->
            o.prefix \o Fence \o o.tag \o o.lead \o o.body \o o.trail \o Fence
            \o o.suffix
      [] o.family = "pieces" -> Concat(o.parts)

InitSchema ==
    /\ \/ origin \in ValueOrigins
       \/ origin \in DocOrigins
       \/ origin \in DisguisedOrigins
       \/ origin \in FencedOrigins
       \/ origin \in PieceOrigins
    /\ input = SchemaText(origin)
    /\ lexer = LexerInit
    /\ current = Absent
    /\ pc = "schema"
    /\ result = None
    /\ errors = <<>>
    /\ history = <<>>

\* schema.validate(value)
Validate ==
    /\ pc = "schema"
    /\ origin.family = "value"
    /\ result' = validate(origin.schema, origin.value)
    /\ errors' = result'.errors
    /\ history' = validationCalls(origin.schema.fields, origin.value, 1)
    /\ pc' = "validated"
    /\ UNCHANGED <<input, origin, lexer, current>>

\* schema.parse(input)
Decode ==
    /\ pc = "schema"
    /\ origin.family # "value"
    /\ result' = Schema_parse(origin.schema, input)
    /\ errors' = result'.errors
    /\ pc' = "decoded"
    /\ UNCHANGED <<input, origin, lexer, current, history>>

NextSchema == Validate \/ Decode

SpecSchema == InitSchema /\ [][NextSchema]_vars

ErrorsAt(path) == {i \in 1..Len(errors) : errors[i].path = path}

FieldsOf(schema) == {schema.fields[i] : i \in 1..Len(schema.fields)}

\* a value of the field's declared primitive type
OfDeclaredType(value, type) == value.t = type.name

MissingFieldsReported ==
    \A f \in FieldsOf(origin.schema) :
        (f.required /\ f.default = JsUndefined /\ ~HasProperty(origin.value, f.name))
            => Cardinality(ErrorsAt(f.name)) = 1

AgeExample ==
    origin.schema = AgeSchema =>
        /\ origin.value = JsObject(<<>>) => (Len(errors) = 1 /\ ~result.valid)
        /\ origin.value = JsObject(<<[key |-> AgeName, value |-> Thirty]>>)
              => result.valid

(***************************************************************************)
(* C5 as stated.  validate reports exactly one error, its path the field's *)
(* name, for each required field without default that the value lacks,    *)
(* and no error for a required field present with a value of its declared *)
(* type.                                                                   *)
(***************************************************************************)
C5_PresentFieldNoError ==
    (pc = "validated" /\ origin.value.t = "object") =>
        /\ MissingFieldsReported
        /\ AgeExample
        /\ \A f \in FieldsOf(origin.schema) :
              (/\ f.required
               /\ HasProperty(origin.value, f.name)
               /\ OfDeclaredType(GetProperty(origin.value, f.name), f.type))
                  => ErrorsAt(f.name) = {}

(***************************************************************************)
(* C5 amended.  validate reports exactly one error, its path the field's   *)
(* name, for each required field without default that the value lacks,    *)
(* and no error for a required field present with a value of its declared *)
(* type that passes the field's custom predicate, when it has one.         *)
(***************************************************************************)
C5_PresentPassingFieldNoError ==
    (pc = "validated" /\ origin.value.t = "object") =>
        /\ MissingFieldsReported
        /\ AgeExample
        /\ \A f \in FieldsOf(origin.schema) :
              (/\ f.required
               /\ HasProperty(origin.value, f.name)
               /\ OfDeclaredType(GetProperty(origin.value, f.name), f.type)
               /\ (f.validation = Absent
                   \/ applyValidation(f.validation, GetProperty(origin.value, f.name))))
                  => ErrorsAt(f.name) = {}

C5_OneMissingOnePresent ==
    /\ pc = "validated"
    /\ origin.schema = PersonSchema
    /\ origin.value = JsObject(<<[key |-> AgeName, value |-> Thirty]>>)
    /\ Len(errors) = 1
    /\ errors[1].path = NameName

EntrySet(object) == {object.entries[i] : i \in 1..Len(object.entries)}

\* the base object under the schema's field names, defaults filled in
ExpectedEntries(schema, base) ==
    EntrySet(base)
    \cup {[key |-> f.name, value |-> f.default] :
            f \in {g \in FieldsOf(schema) :
                     g.default # JsUndefined /\ ~HasProperty(base, g.name)}}

(***************************************************************************)
(* C6.  When the text decodes to an object that fails direct validation    *)
(* only because field names differ in letter case or number-typed fields   *)
(* hold numeric strings, parse succeeds and returns the object under the   *)
(* schema's field names with the strings coerced to numbers; so            *)
(* {"age":"30"} against required age: number gives age = 30.               *)
(***************************************************************************)
C6_AutoCorrects ==
    (/\ pc = "decoded"
     /\ origin.family = "disguised"
     /\ JSON_parse(input).ok
     /\ ~validate(origin.schema, JSON_parse(input).val).valid)
        => /\ result.success
           /\ EntrySet(result.value) = ExpectedEntries(origin.schema, origin.base)
           /\ Len(result.value.entries) = Cardinality(EntrySet(result.value))

C6_CaseAndNumericString ==
    /\ pc = "decoded"
    /\ origin.family = "disguised"
    /\ origin.schema = PersonSchema
    /\ input = Stringify(JsObject(<<[key |-> <<"N", "A", "M", "E">>,
                                     value |-> JsString(<<"a", "b", "c">>)],
                                    [key |-> <<"A", "g", "e">>,
                                     value |-> JsString(<<"3", "0">>)]>>))
    /\ ~validate(origin.schema, JSON_parse(input).val).valid
    /\ result.success
    /\ GetProperty(result.value, AgeName) = Thirty

WithoutReentries(r) == [success |-> r.success, value |-> r.value, errors |-> r.errors]

(***************************************************************************)
(* C7.  When the text is not decodable as JSON but holds a fenced code     *)
(* block, parse returns the result of parsing the fenced payload (a fenced *)
(* {"age":30} succeeds), and parse re-enters itself at most once for any   *)
(* text.                                                                   *)
(***************************************************************************)
C7_FencedPayloadParsedOnce ==
    pc = "decoded" =>
        /\ result.reentries <= 1
        /\ origin.family = "fenced" =>
              /\ ~JSON_parse(input).ok
              /\ result.reentries = 1
              /\ WithoutReentries(result)
                    = WithoutReentries(Schema_parse(origin.schema, origin.body))
              /\ (origin.schema = AgeSchema /\ origin.body = AgeDoc) => result.success

C7_FencedAgeWithSecondBlock ==
    /\ pc = "decoded"
    /\ origin.family = "fenced"
    /\ origin.schema = AgeSchema
    /\ origin.body = AgeDoc
    /\ origin.tag = JsonTag
    /\ origin.lead = <<"\n">>
    /\ origin.suffix = <<" ">> \o Fence \o AgeDoc \o Fence
    /\ result.success
    /\ result.reentries = 1

(***************************************************************************)
(* C8.  validate and parse never throw, for any value or text: every       *)
(* failure comes back as a result with valid or success false and a        *)
(* non-empty list of errors.                                               *)
(***************************************************************************)
C8_FailuresAreResults ==
    /\ pc = "validated" =>
          /\ ~result.threw
          /\ result.valid \in BOOLEAN
          /\ ~result.valid => result.errors # <<>>
    /\ pc = "decoded" =>
          /\ result.success \in BOOLEAN
          /\ ~result.success => result.errors # <<>>

C8_NullRejected ==
    /\ pc = "validated"
    /\ origin.value = JsNull
    /\ ~result.threw
    /\ ~result.valid
    /\ Len(result.errors) = 1
    /\ result.errors[1].path = <<>>

(***************************************************************************)
(* Types for the subtyping relation: the primitives, any, never, dynamic,  *)
(* a function type, lists, records of optional and required fields, and    *)
(* unions.  isSubtype is applied to the three pairs of a triple of them.   *)
(***************************************************************************)
Primitives == {PrimitiveType(n) : n \in {"string", "number", "boolean", "null"}}

TypeAny == [kind |-> "any"]

TypeNever == [kind |-> "never"]

TypeDynamic == [kind |-> "dynamic", constraint |-> Absent]

\* () -> string
FunctionTypes ==
    {[kind |-> "function", params |-> <<>>, returns |-> PrimitiveType("string")]}

ListTypes ==
    {[kind |-> "list", element |-> e] :
        e \in {PrimitiveType("string"), PrimitiveType("number"), TypeDynamic}}

RecordTypes ==
    {[kind |-> "record", fields |-> f] :
        f \in SeqsUpTo([name : {<<"x">>},
                        type : {PrimitiveType("string"), PrimitiveType("number")},
                        optional : BOOLEAN], MaxFields)}

UnionTypes ==
    {[kind |-> "union", types |-> m] :
        m \in SeqsUpTo({PrimitiveType("string"), PrimitiveType("number"), TypeDynamic},
                       MaxMembers)}

SubtypeTypes ==
    Primitives \cup {TypeAny, TypeNever, TypeDynamic} \cup FunctionTypes
    \cup ListTypes \cup RecordTypes \cup UnionTypes

InitSubtype ==
    /\ origin \in SubtypeTypes \X SubtypeTypes \X SubtypeTypes
    /\ input = <<>>
    /\ lexer = LexerInit
    /\ current = Absent
    /\ pc = "types"
    /\ result = None
    /\ errors = <<>>
    /\ history = <<>>

\* isSubtype(A, B), isSubtype(B, C), isSubtype(A, C) for origin = <<A, B, C>>
Subtype ==
    /\ pc = "types"
    /\ result' = [ab |-> isSubtype(origin[1], origin[2]),
                  bc |-> isSubtype(origin[2], origin[3]),
                  ac |-> isSubtype(origin[1], origin[3])]
    /\ pc' = "compared"
    /\ UNCHANGED <<input, origin, lexer, current, errors, history>>

NextSubtype == Subtype

SpecSubtype == InitSubtype /\ [][NextSubtype]_vars

(***************************************************************************)
(* C17.  isSubtype is transitive: for all types A, B, C built from         *)
(* primitives, lists, unions, records (with optional fields), dynamic, any *)
(* and never, isSubtype(A, B) and isSubtype(B, C) imply isSubtype(A, C).   *)
(***************************************************************************)
C17_SubtypeTransitive ==
    (pc = "compared" /\ \A i \in 1..3 : origin[i] \notin FunctionTypes) =>
        (result.ab /\ result.bc => result.ac)

\* the same without records that have an optional field
NoOptionalField(type) ==
    type.kind = "record" => \A i \in 1..Len(type.fields) : ~type.fields[i].optional

TransitiveWithoutOptionalFields ==
    (pc = "compared" /\ \A i \in 1..3 :
                           origin[i] \notin FunctionTypes /\ NoOptionalField(origin[i])) =>
        (result.ab /\ result.bc => result.ac)

(***************************************************************************)
(* C18.  For every primitive T, isSubtype(T, T), isSubtype(never, T) and   *)
(* isSubtype(T, any) are true; isSubtype(dynamic, T) is true for every     *)
(* type T, never and function types included.                              *)
(***************************************************************************)
C18_SubtypeAxioms ==
    pc = "compared" =>
        /\ (origin[1] \in Primitives /\ origin[2] = origin[1]) => result.ab
        /\ (origin[1] = TypeNever /\ origin[2] \in Primitives) => result.ab
        /\ (origin[1] \in Primitives /\ origin[2] = TypeAny) => result.ab
        /\ origin[1] = TypeDynamic => (result.ab /\ result.ac)

\* isSubtype(dynamic, never) and isSubtype(dynamic, () -> string) were asked
C18_DynamicBelowNeverAndFunction ==
    /\ pc = "compared"
    /\ origin[1] = TypeDynamic
    /\ origin[2] = TypeNever
    /\ origin[3] \in FunctionTypes
    /\ result.ab
    /\ result.ac

(***************************************************************************)
(* Types for the constructors unionType and intersectionType.  The first   *)
(* argument is any of: string, number, any, never, and the unions one can  *)
(* write out by hand, the empty one, the singletons, those with a never    *)
(* member and those with a union member among them.                        *)
(***************************************************************************)
StringOrNumber ==
    [kind |-> "union", types |-> <<PrimitiveType("string"), PrimitiveType("number")>>]

AtomTypes == {PrimitiveType("string"), PrimitiveType("number"), TypeAny, TypeNever}

HandUnions ==
    {[kind |-> "union", types |-> m] :
        m \in SeqsUpTo({PrimitiveType("string"), PrimitiveType("number"), TypeNever,
                        StringOrNumber}, MaxMembers)}

FurtherArguments ==
    AtomTypes \cup {StringOrNumber, [kind |-> "union", types |-> <<TypeNever>>]}

InitConstructors ==
    /\ origin \in (AtomTypes \cup HandUnions) \X FurtherArguments \X FurtherArguments
    /\ input = <<>>
    /\ lexer = LexerInit
    /\ current = Absent
    /\ pc = "types"
    /\ result = None
    /\ errors = <<>>
    /\ history = <<>>

\* unionType(unionType(A, B), C), unionType(A, B, C) and unionType(A, never)
\* for origin = <<A, B, C>>
UnionOfThree ==
    /\ pc = "types"
    /\ result' = [nested |-> unionType(<<unionType(<<origin[1], origin[2]>>), origin[3]>>),
                  flat |-> unionType(<<origin[1], origin[2], origin[3]>>),
                  withNever |-> unionType(<<origin[1], TypeNever>>)]
    /\ pc' = "united"
    /\ UNCHANGED <<input, origin, lexer, current, errors, history>>

\* the value built so far, and the argument the next call combines it with
Built == IF pc = "types" THEN origin[1] ELSE result

NextArgument == origin[(Len(history) % 2) + 2]

\* unionType(built, next)
UnionWith ==
    /\ pc \in {"types", "built"}
    /\ Len(history) < MaxOps
    /\ result' = unionType(<<Built, NextArgument>>)
    /\ history' = Append(history, "unionType")
    /\ pc' = "built"
    /\ UNCHANGED <<input, origin, lexer, current, errors>>

\* intersectionType(built, next)
IntersectWith ==
    /\ pc \in {"types", "built"}
    /\ Len(history) < MaxOps
    /\ result' = intersectionType(<<Built, NextArgument>>)
    /\ history' = Append(history, "intersectionType")
    /\ pc' = "built"
    /\ UNCHANGED <<input, origin, lexer, current, errors>>

NextConstructors == UnionOfThree \/ UnionWith \/ IntersectWith

SpecConstructors == InitConstructors /\ [][NextConstructors]_vars

\* no member of the type's own kind, no never in a union, not a singleton
Normalised(type) ==
    /\ type.kind \in {"union", "intersection"} =>
          /\ Len(type.types) # 1
          /\ \A i \in 1..Len(type.types) : type.types[i].kind # type.kind
    /\ type.kind = "union" =>
          \A i \in 1..Len(type.types) : type.types[i].kind # "never"

\* not a union of fewer than two members, or with a never or a union member
ProperUnion(type) ==
    type.kind = "union" =>
        /\ Len(type.types) >= 2
        /\ \A i \in 1..Len(type.types) : type.types[i].kind \notin {"never", "union"}

NoNestedUnion(type) ==
    type.kind = "union" => \A i \in 1..Len(type.types) : type.types[i].kind # "union"

C20_ConstructorsNormalise ==
    (pc = "built" /\ \A i \in 1..3 : Normalised(origin[i])) => Normalised(result)

\* the claim holds of the values built by unionType alone
UnionResultsNormalised ==
    (pc = "built" /\ (\A k \in 1..Len(history) : history[k] = "unionType")
        /\ \A i \in 1..3 : Normalised(origin[i])) => Normalised(result)

(***************************************************************************)
(* C21.  validate evaluates every declared field in declaration order,     *)
(* also after an earlier field failed: the errors list holds, in           *)
(* declaration order, at most one error per field, and a field's custom    *)
(* validation is called only when the field's value is valid for its       *)
(* declared type.                                                          *)
(***************************************************************************)
\* the place of a field in the declaration (0: not declared)
FieldIndex(fields, name) ==
    IF \E i \in 1..Len(fields) : fields[i].name = name
    THEN CHOOSE i \in 1..Len(fields) : fields[i].name = name
    ELSE 0

\* field i alone makes the value invalid
FieldFails(field, value) ==
    LET fieldValue == GetProperty(value, field.name)
    IN  IF fieldValue = JsUndefined
        THEN field.required /\ field.default = JsUndefined
        ELSE \/ ~validateType(fieldValue, field.type)
             \/ field.validation # Absent /\ ~applyValidation(field.validation, fieldValue)

C21_EveryFieldInOrder ==
    (pc = "validated" /\ ~result.threw /\ ~notAnObject(origin.value)) =>
        LET fields == origin.schema.fields IN
        /\ \A k \in 1..Len(errors) : FieldIndex(fields, errors[k].path) > 0
        /\ \A k, l \in 1..Len(errors) :
              k < l => FieldIndex(fields, errors[k].path)
                         < FieldIndex(fields, errors[l].path)
        /\ \A i \in 1..Len(fields) :
              FieldFails(fields[i], origin.value)
                  <=> \E k \in 1..Len(errors) : errors[k].path = fields[i].name
        /\ \A k \in 1..Len(history) :
              validateType(GetProperty(origin.value, history[k]),
                           fields[FieldIndex(fields, history[k])].type)

\* Person checked on {age: 7, name: 30}: name fails its type, and age, of the
\* right type, is still handed to its validation and fails it
C21_SecondFieldAfterFailure ==
    /\ pc = "validated"
    /\ origin.schema = PersonSchema
    /\ origin.value = JsObject(<<[key |-> AgeName, value |-> Seven],
                                 [key |-> NameName, value |-> Thirty]>>)
    /\ Len(errors) = 2
    /\ errors[1].path = NameName
    /\ errors[1].message.what = "Expected type"
    /\ errors[2].path = AgeName
    /\ errors[2].message.what = "Custom validation failed"
    /\ history = <<AgeName>>

(***************************************************************************)
(* Schema.toOpenAISchema as a state machine: a schema definition of a few  *)
(* fields, their types of every kind of the algebra, and one call.         *)
(***************************************************************************)
\* {x: string, y?: number}
PointRecord ==
    [kind |-> "record",
     fields |-> <<[name |-> <<"x">>, type |-> PrimitiveType("string"), optional |-> FALSE],
                  [name |-> <<"y">>, type |-> PrimitiveType("number"), optional |-> TRUE]>>]

ProjectedTypes ==
    Primitives \cup FunctionTypes
    \cup {TypeAny, TypeNever, TypeDynamic, StringOrNumber, PointRecord,
          [kind |-> "list", element |-> PrimitiveType("string")],
          [kind |-> "list", element |-> StringOrNumber],
          [kind |-> "intersection", types |-> <<PrimitiveType("string"), TypeAny>>],
          [kind |-> "prompt", input |-> TypeAny, output |-> TypeAny]}

\* definitions of 1..MaxDeclared fields of distinct names
Definitions ==
    {[name |-> "Projected", fields |-> f] :
        f \in {q \in SeqsFromTo([name : {NameName, AgeName, ActiveName},
                                  type : ProjectedTypes, required : BOOLEAN],
                                 1, MaxDeclared) :
                 \A i, j \in 1..Len(q) : i # j => q[i].name # q[j].name}}

InitOpenAI ==
    /\ origin \in Definitions
    /\ input = <<>>
    /\ lexer = LexerInit
    /\ current = Absent
    /\ pc = "schema"
    /\ result = None
    /\ errors = <<>>
    /\ history = <<>>

\* new Schema(definition).toOpenAISchema(), once and once again
ToOpenAISchema ==
    /\ pc \in {"schema", "projected"}
    /\ Len(history) < 2
    /\ result' = toOpenAISchema(origin)
    /\ history' = Append(history, result')
    /\ pc' = "projected"
    /\ UNCHANGED <<input, origin, lexer, current, errors>>

NextOpenAI == ToOpenAISchema

SpecOpenAI == InitOpenAI /\ [][NextOpenAI]_vars

\* what the projection of a type has to be
RECURSIVE Projects(_, _)
Projects(type, schema) ==
    CASE type.kind = "primitive" -> schema = [type |-> type.name]
      [] type.kind = "list" ->
            /\ DOMAIN schema = {"type", "items"}
            /\ schema.type = "array"
            /\ Projects(type.element, schema.items)
      [] type.kind = "union" ->
            /\ DOMAIN schema = {"oneOf"}
            /\ Len(schema.oneOf) = Len(type.types)
            /\ \A i \in 1..Len(type.types) : Projects(type.types[i], schema.oneOf[i])
      [] type.kind = "record" ->
            /\ DOMAIN schema = {"type", "properties", "required"}
            /\ schema.type = "object"
            /\ Len(schema.properties) = Len(type.fields)
            /\ \A i \in 1..Len(type.fields) :
                  /\ schema.properties[i].key = type.fields[i].name
                  /\ Projects(type.fields[i].type, schema.properties[i].value)
            /\ \A i \in 1..Len(type.fields) :
                  ~type.fields[i].optional
                      <=> \E k \in 1..Len(schema.required) :
                             schema.required[k] = type.fields[i].name
            /\ Len(schema.required)
                  = Cardinality({i \in 1..Len(type.fields) : ~type.fields[i].optional})
      [] OTHER -> schema = [type |-> "string"]

\* the names in s are those of the flagged fields, in declaration order
InDeclarationOrder(names, fields) ==
    /\ Len(names) = Cardinality({i \in 1..Len(fields) : fields[i].required})
    /\ \A i \in 1..Len(fields) :
          fields[i].required <=> \E k \in 1..Len(names) : names[k] = fields[i].name
    /\ \A k, l \in 1..Len(names) :
          k < l => FieldIndex(fields, names[k]) < FieldIndex(fields, names[l])

(***************************************************************************)
(* C22.  toOpenAISchema is a function of the schema definition alone: two  *)
(* calls give the same value; the top level is an object whose required    *)
(* list holds exactly the fields flagged required, in declaration order;   *)
(* a primitive projects to {type: name}, a list to {type: array, items}, a *)
(* union to {oneOf}, a record to {type: object, properties, required = the *)
(* non-optional field names}, and function, intersection, dynamic, any,    *)
(* never and prompt to {type: string}.                                     *)
(***************************************************************************)
C22_OpenAIProjection ==
    pc = "projected" =>
        /\ \A k \in 1..Len(history) : history[k] = result
        /\ result.type = "object"
        /\ InDeclarationOrder(result.required, origin.fields)
        /\ Len(result.properties) = Len(origin.fields)
        /\ \A i \in 1..Len(origin.fields) :
              /\ result.properties[i].key = origin.fields[i].name
              /\ Projects(origin.fields[i].type, result.properties[i].value)

\* an optional record-typed field and a required field of function type,
\* projected twice
C22_RecordAndFunction ==
    /\ pc = "projected"
    /\ Len(history) = 2
    /\ Len(origin.fields) = 2
    /\ origin.fields[1].type = PointRecord
    /\ ~origin.fields[1].required
    /\ origin.fields[2].type \in FunctionTypes
    /\ origin.fields[2].required
    /\ result.required = <<origin.fields[2].name>>
    /\ result.properties[1].value.required = <<<<"x">>>>
    /\ result.properties[2].value = [type |-> "string"]

(***************************************************************************)
(* The lexer's loops, one iteration a step.  A Parser takes its tokens by  *)
(* calls of nextToken() until EOF or a throw; scanTemplate and scanString  *)
(* run iteration by iteration, every other token is scanned in one step.   *)
(* input is the text, lexer the cursor, current the value the running scan *)
(* has put together, history the tokens returned.                          *)
(*                                                                         *)
(* Past the end of the input every position reads the same: slice gives    *)
(* the empty string and input[position] undefined.  The cursor is          *)
(* therefore kept within two places past the end, going from the one to    *)
(* the other at each advance(), and the value is kept at its first         *)
(* undefined: the iterations out there remain steps, among two states.     *)
(***************************************************************************)
ScanAlphabet == {"\"", "{", "}", "a"}

TripleQuote == <<"\"", "\"", "\"">>

InitScan ==
    /\ input \in SeqsUpTo(ScanAlphabet, MaxChars)
    /\ origin = "tokens"
    /\ lexer = LexerInit
    /\ current = <<>>
    /\ pc = "ready"
    /\ result = None
    /\ errors = <<>>
    /\ history = <<>>

\* advance() with the cursor kept within two places past the end
AdvanceSaturating(lx) ==
    IF lx.position > Len(input) + 1
    THEN [lx EXCEPT !.position = @ - 1, !.column = @ - 1]
    ELSE Lexer_advance(lx)

\* value += this.advance()
ValueAdvanced(lx) ==
    IF lx.position > Len(input) THEN current
    ELSE current \o CharText(Lexer_advanceChar(input, lx))

\* nextToken() up to the call of scanTemplate or scanString, or to its return
NextTokenStart ==
    /\ pc = "ready"
    /\ LET lx == skipWhitespace(input, lexer)
           operator == \E op \in {<<"|", ">">>, <<"-", ">">>, <<"=", ">">>, <<":", ":">>} :
                          Lexer_matches(input, lx, op)
       IN  IF lx.position < Len(input) /\ ~operator /\ Lexer_matches(input, lx, TripleQuote)
           THEN /\ lexer' = Lexer_match(lx, TripleQuote)
                /\ current' = <<>>
                /\ pc' = "scanTemplate"
                /\ UNCHANGED <<result, errors, history>>
           ELSE IF lx.position < Len(input) /\ ~operator /\ Lexer_peek(input, lx) = "\""
           THEN /\ lexer' = Lexer_advance(lx)
                /\ current' = <<>>
                /\ pc' = "scanString"
                /\ UNCHANGED <<result, errors, history>>
           ELSE \E r \in {nextToken(input, lexer)} :
                /\ lexer' = r.lx
                /\ current' = <<>>
                /\ IF r.ok
                   THEN /\ result' = r.tok
                        /\ history' = Append(history, r.tok)
                        /\ pc' = IF r.tok.type = TokenType["EOF"] THEN "eof" ELSE "ready"
                        /\ UNCHANGED errors
                   ELSE /\ errors' = <<r.err>>
                        /\ pc' = "thrown"
                        /\ UNCHANGED <<result, history>>
    /\ UNCHANGED <<input, origin>>

\* one test of scanTemplate's while condition and the iteration it admits
ScanTemplateStep ==
    /\ pc = "scanTemplate"
    /\ IF lexer.position >= Len(input) \/ Lexer_matches(input, lexer, TripleQuote)
       THEN LET lx == IF lexer.position >= Len(input) THEN lexer
                      ELSE Lexer_match(lexer, TripleQuote)
                tok == makeToken(lx, TokenType["STRING"], current)
            IN  /\ lexer' = lx
                /\ result' = tok
                /\ history' = Append(history, tok)
                /\ current' = <<>>
                /\ pc' = "ready"
       ELSE IF Lexer_matches(input, lexer, <<"{", "{">>)
       THEN /\ lexer' = Lexer_match(lexer, <<"{", "{">>)
            /\ current' = current \o <<"{", "{">>
            /\ pc' = "interpolation"
            /\ UNCHANGED <<result, history>>
       ELSE /\ lexer' = Lexer_advance(lexer)
            /\ current' = ValueAdvanced(lexer)
            /\ UNCHANGED <<pc, result, history>>
    /\ UNCHANGED <<input, origin, errors>>

\* one test of while (!this.match('}}')) and the iteration it admits
InterpolationStep ==
    /\ pc = "interpolation"
    /\ IF Lexer_matches(input, lexer, <<"}", "}">>)
       THEN /\ lexer' = Lexer_match(lexer, <<"}", "}">>)
            /\ current' = current \o <<"}", "}">>
            /\ pc' = "scanTemplate"
       ELSE /\ lexer' = AdvanceSaturating(lexer)
            /\ current' = ValueAdvanced(lexer)
            /\ UNCHANGED pc
    /\ UNCHANGED <<input, origin, result, errors, history>>

\* one test of scanString's while condition and the iteration it admits
ScanStringStep ==
    /\ pc = "scanString"
    /\ IF Lexer_peek(input, lexer) # "\"" /\ lexer.position < Len(input)
       THEN /\ IF Lexer_peek(input, lexer) = "\\"
               THEN /\ lexer' = Lexer_advance(Lexer_advance(lexer))
                    /\ current' = current
                          \o CharText(escape(Lexer_advanceChar(input, Lexer_advance(lexer))))
               ELSE /\ lexer' = Lexer_advance(lexer)
                    /\ current' = ValueAdvanced(lexer)
            /\ UNCHANGED <<pc, result, history>>
       ELSE LET lx == Lexer_advance(lexer)
                tok == makeToken(lx, TokenType["STRING"], current)
            IN  /\ lexer' = lx
                /\ result' = tok
                /\ history' = Append(history, tok)
                /\ current' = <<>>
                /\ pc' = "ready"
    /\ UNCHANGED <<input, origin, errors>>

NextScan == NextTokenStart \/ ScanTemplateStep \/ InterpolationStep \/ ScanStringStep

\* the loops run on: a call that has begun takes its next iteration
SpecScan == InitScan /\ [][NextScan]_vars /\ WF_vars(NextScan)

Scanning == pc \in {"scanTemplate", "interpolation", "scanString"}

(***************************************************************************)
(* C23.  Every call of nextToken(), and hence Parser.parse, terminates on  *)
(* every finite input, also one in which a string literal, a template or   *)
(* a {{ marker is never closed: a scan that has begun returns its token or *)
(* throws.                                                                 *)
(***************************************************************************)
C23_NextTokenTerminates == Scanning ~> ~Scanning

\* the loops of scanString and scanTemplate themselves do end, closed or not
StringAndTemplateLoopsEnd ==
    (pc \in {"scanTemplate", "scanString"}) ~> (pc \in {"ready", "interpolation"})

\* the loop of an interpolation is left only at a }}
InterpolationLeftAtClose ==
    [][(pc = "interpolation" /\ pc' # "interpolation")
          => Lexer_matches(input, lexer, <<"}", "}">>)]_vars

(***************************************************************************)
(* CircuitBreaker (src/src/runtime/resilience.ts 1-50).  origin is the     *)
(* constructor's [threshold, timeout], current the object's [failures,     *)
(* lastFailureTime, state], input the value of Date.now().  pc[c] is where *)
(* call c of execute stands, "idle" or "awaiting" fn(); result[c] is the   *)
(* state the breaker was in when c called fn; errors are the messages of   *)
(* the rejections execute made itself; history logs the calls that ended.  *)
(* execute runs up to its await in one step, and from the settling of fn() *)
(* to its return in another: JavaScript runs each without interruption.    *)
(***************************************************************************)
Calls == 1..MaxInFlight

BreakerOpenMessage == "Circuit breaker is open"

InitBreaker ==
    /\ origin \in [threshold : 1..MaxThreshold, timeout : 1..MaxTimeout]
    /\ current = [failures |-> 0, lastFailureTime |-> 0, state |-> "closed"]
    /\ input = 1
    /\ pc = [c \in Calls |-> "idle"]
    /\ result = [c \in Calls |-> "none"]
    /\ errors = <<>>
    /\ history = <<>>
    /\ lexer = LexerInit

\* Date.now() moves on
Tick ==
    /\ input < MaxClock
    /\ input' = input + 1
    /\ UNCHANGED <<origin, lexer, current, pc, result, errors, history>>

\* an execute whose test of the timeout is >= for >
timedOut_atTimeout(breaker, now, timeout) == now - breaker.lastFailureTime >= timeout

\* Date.now() - this.lastFailureTime > this.timeout
timedOut(breaker, now, timeout) == now - breaker.lastFailureTime > timeout

onSuccess(breaker) ==
    [breaker EXCEPT !.state = IF @ = "half-open" THEN "closed" ELSE @,
                    !.failures = 0]

onFailure(breaker, now, threshold) ==
    [breaker EXCEPT !.failures = @ + 1,
                    !.lastFailureTime = now,
                    !.state = IF breaker.failures + 1 >= threshold THEN "open" ELSE @]

Started == Len(history) + Cardinality({c \in Calls : pc[c] = "awaiting"})

\* execute(fn) up to await fn(), with at most limit calls awaiting
Execute(c, limit) ==
    /\ pc[c] = "idle"
    /\ Started < MaxExecs
    /\ Cardinality({d \in Calls : pc[d] = "awaiting"}) < limit
    /\ IF current.state = "open" /\ ~timedOut(current, input, origin.timeout)
       THEN /\ errors' = Append(errors, BreakerOpenMessage)
            /\ history' = Append(history, [call |-> c, outcome |-> "rejected"])
            /\ UNCHANGED <<current, pc, result>>
       ELSE /\ current' = IF current.state = "open"
                          THEN [current EXCEPT !.state = "half-open"]
                          ELSE current
            /\ result' = [result EXCEPT ![c] = current'.state]
            /\ pc' = [pc EXCEPT ![c] = "awaiting"]
            /\ UNCHANGED <<errors, history>>
    /\ UNCHANGED <<input, origin, lexer>>

\* fn() fulfils: onSuccess(), return result
Succeed(c) ==
    /\ pc[c] = "awaiting"
    /\ current' = onSuccess(current)
    /\ pc' = [pc EXCEPT ![c] = "idle"]
    /\ history' = Append(history, [call |-> c, outcome |-> "returned"])
    /\ UNCHANGED <<input, origin, lexer, result, errors>>

\* fn() rejects: onFailure(), throw error
Fail(c) ==
    /\ pc[c] = "awaiting"
    /\ current' = onFailure(current, input, origin.threshold)
    /\ pc' = [pc EXCEPT ![c] = "idle"]
    /\ history' = Append(history, [call |-> c, outcome |-> "failed"])
    /\ UNCHANGED <<input, origin, lexer, result, errors>>

\* each execute awaited before the next is called
NextBreaker == Tick \/ \E c \in Calls : Execute(c, 1) \/ Succeed(c) \/ Fail(c)

SpecBreaker == InitBreaker /\ [][NextBreaker]_vars

\* executes called while others await their function
NextOverlap == Tick \/ \E c \in Calls : Execute(c, MaxInFlight) \/ Succeed(c) \/ Fail(c)

SpecOverlap == InitBreaker /\ [][NextOverlap]_vars

\* the last n calls that ended are n failures of fn, the last of them just now
LastFailed(n) ==
    /\ Len(history) >= n
    /\ \A k \in (Len(history) - n + 1)..Len(history) : history[k].outcome = "failed"

Awaiting == {c \in Calls : pc[c] = "awaiting"}

(***************************************************************************)
(* C24.  After threshold consecutive failed executions the breaker is      *)
(* open.  While it is open and no more than timeout ms have passed since   *)
(* the last failure, execute rejects with 'Circuit breaker is open' and    *)
(* does not call the function.  After the timeout the next execute calls   *)
(* the function in the half-open state, and the success of that call       *)
(* returns the breaker to closed with failures reset to 0.                 *)
(***************************************************************************)
C24_BreakerCycle ==
    [][(history' # history \/ pc' # pc) =>
            /\ (history' # history /\ LastFailed(origin.threshold)') =>
                  current'.state = "open"
            /\ (current.state = "open"
                    /\ input - current.lastFailureTime <= origin.timeout) =>
                  /\ Len(errors') = Len(errors) + 1
                  /\ errors'[Len(errors')] = BreakerOpenMessage
                  /\ history'[Len(history')].outcome = "rejected"
                  /\ pc' = pc
                  /\ current' = current
            /\ (current.state = "open"
                    /\ input - current.lastFailureTime > origin.timeout) =>
                  /\ current'.state = "half-open"
                  /\ \E c \in Calls : pc[c] = "idle" /\ pc'[c] = "awaiting"
                  /\ errors' = errors
            /\ (current.state = "half-open" /\ history' # history
                    /\ history'[Len(history')].outcome = "returned") =>
                  /\ current'.state = "closed"
                  /\ current'.failures = 0]_vars

\* threshold 2: two failures open the breaker, an execute at the timeout is
\* rejected, one after it runs half-open, succeeds and closes the breaker
C24_OpenedRejectedClosed ==
    /\ origin.threshold = 2
    /\ Len(history) = 4
    /\ history[1].outcome = "failed"
    /\ history[2].outcome = "failed"
    /\ history[3].outcome = "rejected"
    /\ history[4].outcome = "returned"
    /\ errors = <<BreakerOpenMessage>>
    /\ \E c \in Calls : result[c] = "half-open"
    /\ current.state = "closed"
    /\ current.failures = 0
    /\ input - current.lastFailureTime > origin.timeout

(***************************************************************************)
(* C30.  With overlapping calls of execute on one breaker, their promises  *)
(* settling in any order, in every reachable state the breaker is open     *)
(* only if failures >= threshold, and a call that fails after it was       *)
(* admitted in the half-open state leaves the breaker open.                *)
(***************************************************************************)
C30_OverlappingCalls ==
    /\ [](current.state = "open" => current.failures >= origin.threshold)
    /\ [][\A c \in Calls :
            (pc[c] = "awaiting" /\ pc'[c] = "idle" /\ result[c] = "half-open"
                /\ history'[Len(history')].outcome = "failed")
                => current'.state = "open"]_vars

\* the first half alone, and the second half alone
OpenOnlyAtThreshold == current.state = "open" => current.failures >= origin.threshold

HalfOpenFailureOpens ==
    [][\A c \in Calls :
          (pc[c] = "awaiting" /\ pc'[c] = "idle" /\ result[c] = "half-open"
              /\ history'[Len(history')].outcome = "failed")
              => current'.state = "open"]_vars

(***************************************************************************)
(* retry (src/src/composition/operators.ts 72-113).  origin is the options *)
(* object, current the loop's [attempt, delay, lastError], errors the      *)
(* outcomes of the calls of prompt(), history the delays slept, result     *)
(* what the returned Prompt resolves to.                                   *)
(***************************************************************************)
PromptOutcomes ==
    {[kind |-> "success", value |-> "answer"], [kind |-> "error", error |-> "refused"]}

InitRetry ==
    /\ origin \in [maxAttempts : 0..MaxAttempts, initialDelay : 1..MaxDelay,
                    maxDelay : 1..MaxDelay, backoffFactor : 1..MaxFactor]
    /\ current = [attempt |-> 1, delay |-> origin.initialDelay, lastError |-> Undefined]
    /\ pc = "loop"
    /\ result = None
    /\ errors = <<>>
    /\ history = <<>>
    /\ input = <<>>
    /\ lexer = LexerInit

\* one pass of the for loop, from await prompt() to the sleep or the return
Attempt ==
    /\ pc = "loop"
    /\ current.attempt <= origin.maxAttempts
    /\ \E outcome \in PromptOutcomes :
          /\ errors' = Append(errors, outcome)
          /\ IF outcome.kind = "success"
             THEN /\ result' = outcome
                  /\ pc' = "returned"
                  /\ UNCHANGED <<current, history>>
             ELSE IF current.attempt < origin.maxAttempts
             THEN /\ current' = [current EXCEPT !.lastError = outcome.error]
                  /\ history' = Append(history, current.delay)
                  /\ pc' = "sleeping"
                  /\ UNCHANGED result
             ELSE /\ current' = [current EXCEPT !.lastError = outcome.error,
                                                !.attempt = @ + 1]
                  /\ UNCHANGED <<pc, history, result>>
    /\ UNCHANGED <<input, origin, lexer>>

\* sleep(delay) is over: delay = Math.min(delay * backoffFactor, maxDelay), attempt++
Wake ==
    /\ pc = "sleeping"
    /\ current' = [current EXCEPT
                      !.delay = Min(@ * origin.backoffFactor, origin.maxDelay),
                      !.attempt = @ + 1]
    /\ pc' = "loop"
    /\ UNCHANGED <<input, origin, lexer, result, errors, history>>

\* the loop is left: return the error 'Failed after N attempts: ...'
ReturnError ==
    /\ pc = "loop"
    /\ current.attempt > origin.maxAttempts
    /\ result' = [kind |-> "error",
                  error |-> [what |-> "Failed after", attempts |-> origin.maxAttempts,
                             cause |-> current.lastError]]
    /\ pc' = "returned"
    /\ UNCHANGED <<input, origin, lexer, current, errors, history>>

NextRetry == Attempt \/ Wake \/ ReturnError

SpecRetry == InitRetry /\ [][NextRetry]_vars

AtLeastZero(n) == IF n < 0 THEN 0 ELSE n

RECURSIVE Power(_, _)
Power(base, exponent) == IF exponent = 0 THEN 1 ELSE base * Power(base, exponent - 1)

\* the calls of prompt and the result agree with the claim
AttemptsAsClaimed ==
    /\ Len(errors) <= origin.maxAttempts
    /\ \A k \in 1..(Len(errors) - 1) : errors[k].kind = "error"
    /\ pc = "returned" =>
          IF result.kind = "success"
          THEN errors[Len(errors)] = result
          ELSE /\ Len(errors) = origin.maxAttempts
               /\ \A k \in 1..Len(errors) : errors[k].kind = "error"
    /\ pc = "returned" => Len(history) = AtLeastZero(Len(errors) - 1)
    /\ Len(history) <= AtLeastZero(origin.maxAttempts - 1)

(***************************************************************************)
(* C25.  retry calls the prompt at most maxAttempts times, stops at the    *)
(* first success and returns it, and returns an error only after exactly   *)
(* maxAttempts failed calls; the wait before attempt k+1 is                *)
(* min(initialDelay * backoffFactor^(k-1), maxDelay), and there is no wait *)
(* after the last attempt.                                                 *)
(***************************************************************************)
C25_RetryContract ==
    /\ AttemptsAsClaimed
    /\ \A k \in 1..Len(history) :
          history[k] = Min(origin.initialDelay * Power(origin.backoffFactor, k - 1),
                           origin.maxDelay)

\* the claim holds of the options whose initialDelay is within maxDelay
RetryContractWithinMaxDelay ==
    origin.initialDelay <= origin.maxDelay => C25_RetryContract

\* in every case the first wait is initialDelay, whatever maxDelay is
FirstWaitIsInitialDelay ==
    /\ AttemptsAsClaimed
    /\ Len(history) >= 1 => history[1] = origin.initialDelay

(***************************************************************************)
(* cached (src/src/composition/operators.ts 115-142).  current is the      *)
(* module's cache Map, key to [value, expiry] or Absent; input is the      *)
(* value of Date.now(); origin the ttl the prompts are wrapped with.  One  *)
(* call at a time: pc is "idle" or "awaiting" the prompt, result the       *)
(* call's [key, now] while it awaits, errors the values the prompt gave,   *)
(* history the calls that returned, each with the time it began and the    *)
(* time it returned.                                                       *)
(***************************************************************************)
CacheKeys == {"summary", "title"}

InitCache ==
    /\ origin \in [ttl : 1..MaxTtl]
    /\ current = [k \in CacheKeys |-> Absent]
    /\ input = 1
    /\ pc = "idle"
    /\ result = None
    /\ errors = <<>>
    /\ history = <<>>
    /\ lexer = LexerInit

\* Date.now() moves on
Elapse ==
    /\ input < MaxClock
    /\ input' = input + 1
    /\ UNCHANGED <<origin, lexer, current, pc, result, errors, history>>

\* a test of the entry that takes an entry expiring now as fresh
fresh_atExpiry(entry, now) == entry # Absent /\ entry.expiry >= now

\* cached && cached.expiry > now
fresh(entry, now) == entry # Absent /\ entry.expiry > now

\* the call of the cached prompt of key, up to its return or its await prompt()
CallCached(key) ==
    /\ pc = "idle"
    /\ Len(history) < MaxExecs
    /\ IF fresh(current[key], input)
       THEN /\ history' = Append(history,
                              [key |-> key, began |-> input, ended |-> input,
                               outcome |-> "cached",
                               result |-> [kind |-> "success",
                                           value |-> current[key].value]])
            /\ UNCHANGED <<pc, result>>
       ELSE /\ pc' = "awaiting"
            /\ result' = [key |-> key, now |-> input]
            /\ UNCHANGED history
    /\ UNCHANGED <<input, origin, lexer, current, errors>>

\* the values a prompt gives: its n-th success gives n
Settlements ==
    {[kind |-> "success", value |-> Len(errors) + 1], [kind |-> "error", error |-> "refused"]}

\* prompt() settles: store a success, return the result
SettleCached ==
    /\ pc = "awaiting"
    /\ \E outcome \in Settlements :
          /\ errors' = Append(errors, outcome)
          /\ current' = IF outcome.kind = "success"
                        THEN [current EXCEPT ![result.key] =
                                 [value |-> outcome.value,
                                  expiry |-> result.now + origin.ttl]]
                        ELSE current
          /\ history' = Append(history,
                              [key |-> result.key, began |-> result.now, ended |-> input,
                               outcome |-> IF outcome.kind = "success" THEN "stored"
                                           ELSE "failed",
                               result |-> outcome])
    /\ pc' = "idle"
    /\ result' = None
    /\ UNCHANGED <<input, origin, lexer>>

NextCache == Elapse \/ \E key \in CacheKeys : CallCached(key) \/ SettleCached

SpecCache == InitCache /\ [][NextCache]_vars

\* the last store for key: its place in history, 0 when there is none
LastStore(key) ==
    LET stores == {k \in 1..Len(history) :
                      history[k].key = key /\ history[k].outcome = "stored"}
    IN  IF stores = {} THEN 0 ELSE CHOOSE k \in stores : \A l \in stores : l <= k

\* a call of the cached prompt of key begins in this step
Begins(key) ==
    /\ pc = "idle"
    /\ \/ pc' = "awaiting" /\ result'.key = key
       \/ history' # history /\ history'[Len(history')].key = key

ErrorsNeverStored ==
    [][(pc = "awaiting" /\ pc' = "idle" /\ errors'[Len(errors')].kind = "error")
          => current' = current]_vars

CallsPromptOnceTtlElapsed ==
    [][\A key \in CacheKeys :
          (Begins(key) /\ LastStore(key) > 0
              /\ input - history[LastStore(key)].ended >= origin.ttl)
              => pc' = "awaiting"]_vars

(***************************************************************************)
(* C26.  After a call stored a success for a key, every call on that key   *)
(* begun less than ttl ms after the store returns the stored value and     *)
(* does not call the prompt; an error result is never stored; once ttl has *)
(* elapsed the next call calls the prompt again.                           *)
(***************************************************************************)
C26_CacheContract ==
    /\ [][\A key \in CacheKeys :
            (Begins(key) /\ LastStore(key) > 0
                /\ input - history[LastStore(key)].ended < origin.ttl)
                => /\ pc' = "idle"
                   /\ history'[Len(history')].outcome = "cached"
                   /\ history'[Len(history')].result
                         = history[LastStore(key)].result]_vars
    /\ ErrorsNeverStored
    /\ CallsPromptOnceTtlElapsed

\* the claim with ttl counted from the beginning of the call that stored
CacheContractFromCallStart ==
    [][\A key \in CacheKeys :
          (Begins(key) /\ LastStore(key) > 0)
              => IF input - history[LastStore(key)].began < origin.ttl
                 THEN /\ pc' = "idle"
                      /\ history'[Len(history')].outcome = "cached"
                      /\ history'[Len(history')].result = history[LastStore(key)].result
                 ELSE pc' = "awaiting"]_vars

(***************************************************************************)
(* C27.  A parameter annotated with a function type parses to that         *)
(* function type: (f: (x: string) -> number) -> f parses to a lambda whose *)
(* parameter f has the type function([x: string], number), the lookahead   *)
(* of parseType (peekAhead, getTokenAfterAhead) consuming no token.        *)
(* Checked under SpecParser on the texts (f: (n: T) -> R) -> f.            *)
(***************************************************************************)
C27_FunctionTypedParameter ==
    (origin.family = "higher" /\ pc \in {"parsed", "threw"}) =>
        /\ pc = "parsed"
        /\ result.val.kind = "lambda"
        /\ Len(result.val.params) = 1
        /\ result.val.params[1].name = <<"f">>
        /\ result.val.params[1].type
              = [kind |-> "function",
                 params |-> <<[name |-> origin.parts[1].name,
                               type |-> AnnotationType(origin.parts[1].type),
                               optional |-> FALSE]>>,
                 returns |-> AnnotationType(origin.body)]

\* what parse does with these texts: the two lookaheads have taken n and ':'
\* from the lexer, the parameter's type is read as its name, and ')' is found
\* where ':' is expected
FunctionTypedParameterThrows ==
    (origin.family = "higher" /\ pc \in {"parsed", "threw"}) =>
        /\ pc = "threw"
        /\ result.err.what = "Expected ':' after parameter name"
        /\ current.type = TokenType["RPAREN"]

\* check(node, env) on a checker in state st leaves the environments st has
\* as they are
Preserves(node, env, st) ==
    LET after == check(node, env, st).st.envs
    IN  /\ Len(after) >= Len(st.envs)
        /\ \A i \in 1..Len(st.envs) : after[i] = st.envs[i]

\* a checker inside the scope of x: boolean, y: boolean
InnerScope ==
    ChildScope(<<[name |-> <<"x">>, type |-> PrimitiveType("boolean")],
                 [name |-> <<"y">>, type |-> PrimitiveType("boolean")]>>)

(***************************************************************************)
(* C28.  Type checking never changes an ancestor environment: a lambda and *)
(* a let set bindings only in a new child environment, and after           *)
(* check(node, env) has returned, env and its ancestors hold the bindings  *)
(* they held before; an inner binding shadows an outer one only while its  *)
(* own body is checked.  Under SpecChecker: the global environment is as   *)
(* the constructor made it, every other environment is a child of an       *)
(* earlier one, the same node checked inside a scope of x and y leaves     *)
(* that scope and the global one alone, and in let x = 1 in                *)
(* ((x: string) -> x)(x) the argument x is the number again.               *)
(***************************************************************************)
C28_AncestorsUnchanged ==
    history # <<>> =>
        /\ current[1] = globalEnv
        /\ \A k \in 2..Len(current) : current[k].parent \in 1..(k - 1)
        /\ Preserves(origin, 2, InnerScope)
        /\ origin = ShadowedByParameter =>
              /\ result.type = PrimitiveType("string")
              /\ errors # <<>>
              /\ errors[Len(errors)].message.got = PrimitiveType("number")
        /\ origin = ShadowedByLet => result.type = PrimitiveType("number")

\* let x = 1, y = (let x = "s" in x) in x has been checked: the outer let's
\* environment holds x: number and y: string, the inner one's x: string
C28_InnerLetReturned ==
    /\ origin = ShadowedByLet
    /\ pc = "checker"
    /\ Len(current) = 3
    /\ current[1] = globalEnv
    /\ MapGet(current[2].bindings, <<"x">>) = PrimitiveType("number")
    /\ MapGet(current[2].bindings, <<"y">>) = PrimitiveType("string")
    /\ MapGet(current[3].bindings, <<"x">>) = PrimitiveType("string")
    /\ current[3].parent = 1
    /\ result.type = PrimitiveType("number")

\* every default is a value of its field's declared type
DefaultsMatchTypes(schema) ==
    \A i \in 1..Len(schema.fields) :
        schema.fields[i].default # JsUndefined
            => validateType(schema.fields[i].default, schema.fields[i].type)

\* every default is a value validateField has nothing to say against
DefaultsPassValidation(schema) ==
    \A i \in 1..Len(schema.fields) :
        schema.fields[i].default # JsUndefined
            => validateField(schema.fields[i], schema.fields[i].default,
                             schema.fields[i].name) = <<>>

(***************************************************************************)
(* C29 as the specification states it.  Whenever parse returns success,    *)
(* the value it returns passes validate of the same schema, on the direct  *)
(* and on the auto-corrected path, for every schema whose field defaults   *)
(* match the declared field types.                                         *)
(***************************************************************************)
C29_SuccessValidates ==
    (pc = "decoded" /\ result.success /\ DefaultsMatchTypes(origin.schema)) =>
        validate(origin.schema, result.value).valid

(***************************************************************************)
(* C29 as the code has it.  Whenever parse returns success, the value it   *)
(* returns passes validate of the same schema, on the direct and on the    *)
(* auto-corrected path, for every schema whose field defaults match the    *)
(* declared field types and satisfy the fields' custom validations.        *)
(***************************************************************************)
C29_SuccessValidatesGivenValidDefaults ==
    (pc = "decoded" /\ result.success /\ DefaultsPassValidation(origin.schema)) =>
        validate(origin.schema, result.value).valid

\* Profile decoded from {"NAME":"abc"} on the auto-corrected path, active
\* filled in from its default, and the result valid
C29_CorrectedAndDefaulted ==
    /\ pc = "decoded"
    /\ origin.schema = ProfileSchema
    /\ origin.family = "disguised"
    /\ GetProperty(origin.value, NameName) = JsUndefined
    /\ result.success
    /\ GetProperty(result.value, NameName) = JsString(<<"a", "b", "c">>)
    /\ GetProperty(result.value, ActiveName) = JsBoolean(TRUE)
    /\ validate(origin.schema, result.value).valid

\* Guest decoded from {}: success with age 7, which validate rejects
GuestDefaultFailsValidation ==
    (pc = "decoded" /\ origin.schema = GuestSchema /\ input = <<"{", "}">>) =>
        /\ result.success
        /\ GetProperty(result.value, AgeName) = JsNumber(7)
        /\ ~validate(origin.schema, result.value).valid

====
